---- MODULE Spec2Model ----
(***************************************************************************)
(* A model of taskflow-api's authorization core: the role/permission       *)
(* table, the JWT middleware, the user and task handlers, and the          *)
(* in-memory password-reset registry with its mutex and sweep goroutines.  *)
(*                                                                         *)
(* These specifications share the variables:                               *)
(*   Spec      - the account and user routes of the HTTP API, served one   *)
(*               request at a time (middleware plus handler as one step).  *)
(*   SpecTasks - the task routes, with the routes that give callers a role.*)
(*   SpecReset - ForgotPassword / ResetPassword calls running as           *)
(*               concurrent goroutines, step by step around tokenMutex,    *)
(*               with the clock and the deferred sweep goroutines.         *)
(*   SpecSeq   - SpecReset with the calls served one after the other.      *)
(*   SpecSweep - SpecSeq with the clock running on while a sweep sleeps,    *)
(*               under the fairness of the Go scheduler, of sync.Mutex     *)
(*               and of the clock.                                         *)
(*   SpecGate  - the middleware in front of a gated and of an              *)
(*               authentication-only route: token expiry, tokens that are  *)
(*               not session tokens, roles and users edited in the         *)
(*               database.                                                 *)
(*   SpecRedeem - forgot/reset password served in one step while user      *)
(*               documents are removed in the database.                    *)
(*   SpecList  - the task listing, with the routes that give its callers   *)
(*               a role and the tasks an owner.                            *)
(*   SpecSeed  - start-ups of the server (SeedDefaultRoles) over a roles   *)
(*               collection that is edited in the database between runs.   *)
(*   SpecAccount - passwords and needs_password_change: registration,      *)
(*               admin creation, login, temporary-password change, email   *)
(*               verification, forgot/reset password served in one step.   *)
(***************************************************************************)
EXTENDS Integers, Sequences, FiniteSets, TLC

VARIABLES
    now,                  \* wall clock, in ticks (TicksPerHour ticks = 1h)
    roles,                \* roles collection:  role ObjectID -> Role
    users,                \* users collection:  user ObjectID -> User
    tasks,                \* tasks collection:  task ObjectID -> Task
    taskSeq,              \* number of task ObjectIDs generated so far
    sessions,             \* session token each client holds: user ObjectID -> token
    resp,                 \* the last HTTP response written
    passwordResetTokens,  \* auth_service.go:20  token -> user ObjectID
    tokenMutex,           \* auth_service.go:21  Unlocked, or the goroutine holding it
    calls,                \* in-flight ForgotPassword / ResetPassword calls
    sweeps,               \* the deferred removal goroutines of ForgotPassword
    lookups,              \* history: per token, lookups that found it since it was last inserted
    removed               \* history: tokens a sweep goroutine has deleted since last inserted

vars == <<now, roles, users, tasks, taskSeq, sessions, resp,
          passwordResetTokens, tokenMutex, calls, sweeps, lookups, removed>>

apiVars   == <<users, tasks, taskSeq, sessions, resp>>
resetVars == <<passwordResetTokens, tokenMutex, calls, sweeps, lookups, removed>>

----------------------------------------------------------------------------
(* Bounds of the model. *)

MaxUsers == 2        \* user documents that can exist
MaxTasks == 1        \* task documents ever created
MaxCalls == 2        \* concurrent ForgotPassword / ResetPassword calls
MaxIssues == 2       \* ForgotPassword calls that reach issuance
MaxClock == 2        \* last tick of the clock
TicksPerHour == 1    \* resolution of the clock: ticks in one hour
MaxHalfDays == 2     \* half days the clock of SpecGate advances
MaxEdits == 1        \* documents edited directly in the database at a time

Hour == TicksPerHour
Day == 24 * Hour

----------------------------------------------------------------------------
(* ObjectIDs and their hex form.  An ObjectID is <<collection, n>>; a hex  *)
(* string is what arrives in a URL or a claim: it may be malformed, and    *)
(* the same ObjectID has an upper-case and a lower-case spelling.          *)

Oid(kind, n) == <<kind, n>>
NilObjectID == Oid("nil", 0)

UserOids == {Oid("user", n) : n \in 1..MaxUsers}
TaskOids == {Oid("task", n) : n \in 1..MaxTasks}

\* primitive.ObjectID.Hex: always lower case
Hex(oid) == [valid |-> TRUE, oid |-> oid, upper |-> FALSE]
UpperHex(oid) == [valid |-> TRUE, oid |-> oid, upper |-> TRUE]
BadHex == [valid |-> FALSE, oid |-> NilObjectID, upper |-> FALSE]

\* primitive.ObjectIDFromHex: accepts both cases, rejects malformed strings
ObjectIDFromHex(s) ==
    IF s.valid THEN [ok |-> TRUE, oid |-> s.oid]
    ELSE [ok |-> FALSE, oid |-> NilObjectID]

HexOf(oids) == {Hex(o) : o \in oids} \cup {UpperHex(o) : o \in oids} \cup {BadHex}

----------------------------------------------------------------------------
(* models/role.go *)

Perm(a) == [Action |-> a]

\* A faulty variant of the table below: the User role granted task:read_all.
DefaultRolesUserReadsAll ==
    << [Name |-> "Admin",
        Permissions |-> << Perm("task:create"), Perm("task:read_all"),
                           Perm("task:update_all"), Perm("task:delete_all"),
                           Perm("user:read_all"), Perm("user:update_role"),
                           Perm("user:update_profile"), Perm("user:verify_email"),
                           Perm("user:create_admin"), Perm("dashboard:read_metrics") >>],
       [Name |-> "Manager",
        Permissions |-> << Perm("task:create"), Perm("task:read_all"),
                           Perm("task:update_all"), Perm("task:delete_all"),
                           Perm("user:update_profile") >>],
       [Name |-> "User",
        Permissions |-> << Perm("task:create"), Perm("task:read_own"), Perm("task:read_all"),
                           Perm("task:update_own"), Perm("task:delete_own"),
                           Perm("user:update_profile") >>] >>

DefaultRoles ==
    << [Name |-> "Admin",
        Permissions |-> << Perm("task:create"), Perm("task:read_all"),
                           Perm("task:update_all"), Perm("task:delete_all"),
                           Perm("user:read_all"), Perm("user:update_role"),
                           Perm("user:update_profile"), Perm("user:verify_email"),
                           Perm("user:create_admin"), Perm("dashboard:read_metrics") >>],
       [Name |-> "Manager",
        Permissions |-> << Perm("task:create"), Perm("task:read_all"),
                           Perm("task:update_all"), Perm("task:delete_all"),
                           Perm("user:update_profile") >>],
       [Name |-> "User",
        Permissions |-> << Perm("task:create"), Perm("task:read_own"),
                           Perm("task:update_own"), Perm("task:delete_own"),
                           Perm("user:update_profile") >>] >>

\* AuthContext.HasPermission: linear scan for an exact match
HasPermission(ac, permission) ==
    \E i \in DOMAIN ac.Permissions : ac.Permissions[i].Action = permission

----------------------------------------------------------------------------
(* database/mongodb.go: SeedDefaultRoles.  For each default role in order: *)
(* FindOne by name; insert it under a fresh _id when absent, otherwise     *)
(* $set the permissions of the (first) document of that name.              *)

\* InsertOne generates an _id no document of the collection has
FreshRoleID(coll) ==
    Oid("role", CHOOSE n \in 1..(Cardinality(DOMAIN coll) + 1) :
                    /\ Oid("role", n) \notin DOMAIN coll
                    /\ \A m \in 1..(n - 1) : Oid("role", m) \in DOMAIN coll)

\* A faulty variant of the seeding below: an existing role is left as it is.
RECURSIVE SeedFromInsertOnly(_, _)
SeedFromInsertOnly(coll, i) ==
    IF i > Len(DefaultRoles) THEN coll
    ELSE LET d == DefaultRoles[i]
             found == {id \in DOMAIN coll : coll[id].Name = d.Name}
         IN  IF found = {}
             THEN LET id == FreshRoleID(coll)
                  IN  SeedFromInsertOnly([x \in DOMAIN coll \cup {id} |->
                                  IF x = id
                                  THEN [ID |-> id, Name |-> d.Name, Permissions |-> d.Permissions]
                                  ELSE coll[x]], i + 1)
             ELSE SeedFromInsertOnly(coll, i + 1)

RECURSIVE SeedFrom(_, _)
SeedFrom(coll, i) ==
    IF i > Len(DefaultRoles) THEN coll
    ELSE LET d == DefaultRoles[i]
             found == {id \in DOMAIN coll : coll[id].Name = d.Name}
         IN  IF found = {}
             THEN LET id == FreshRoleID(coll)
                  IN  SeedFrom([x \in DOMAIN coll \cup {id} |->
                                  IF x = id
                                  THEN [ID |-> id, Name |-> d.Name, Permissions |-> d.Permissions]
                                  ELSE coll[x]], i + 1)
             ELSE LET id == CHOOSE x \in found : \A y \in found : x[2] <= y[2]
                  IN  SeedFrom([coll EXCEPT ![id].Permissions = d.Permissions], i + 1)

\* A faulty variant of the seeding below: the collection is built anew.
SeedDefaultRolesRecreated(coll) == SeedFrom([x \in {} |-> x], 1)

SeedDefaultRoles(coll) == SeedFrom(coll, 1)

EmptyCollection == [x \in {} |-> x]

----------------------------------------------------------------------------
(* Results of calls that can fail: err = "" on success, with the value.   *)

Ok(v) == [err |-> "", val |-> v]
Err(m) == [err |-> m]

----------------------------------------------------------------------------
(* services/user_service (src/unnamed/part_003): store lookups *)

GetUserByID(id) ==
    LET o == ObjectIDFromHex(id)
    IN  IF ~o.ok THEN Err("invalid user ID format")
        ELSE IF o.oid \notin DOMAIN users THEN Err("user not found")
        ELSE Ok(users[o.oid])

GetUserByEmail(email) ==
    LET found == {u \in DOMAIN users : users[u].Email = email}
    IN  IF found = {} THEN Err("user not found")
        ELSE Ok(users[CHOOSE u \in found : TRUE])

GetRoleByName(name) ==
    LET found == {r \in DOMAIN roles : roles[r].Name = name}
    IN  IF found = {} THEN Err("role not found")
        ELSE Ok(roles[CHOOSE r \in found : \A q \in found : r[2] <= q[2]])

GetRoleByID(id) ==
    LET o == ObjectIDFromHex(id)
    IN  IF ~o.ok THEN Err("invalid role ID format")
        ELSE IF o.oid \notin DOMAIN roles THEN Err("role not found")
        ELSE Ok(roles[o.oid])

\* GetUserResponseByID: the user with its role's name ("Unknown" when the role is gone)
UserResponse(user, roleName) ==
    [ID |-> Hex(user.ID), FirstName |-> user.FirstName, Email |-> user.Email,
     RoleName |-> roleName, IsEmailVerified |-> user.IsEmailVerified,
     NeedsPasswordChange |-> user.NeedsPasswordChange]

GetUserResponseByID(id, coll) ==
    LET o == ObjectIDFromHex(id)
    IN  IF ~o.ok THEN Err("invalid user ID format")
        ELSE IF o.oid \notin DOMAIN coll THEN Err("user not found")
        ELSE LET user == coll[o.oid]
                 role == GetRoleByID(Hex(user.RoleID))
             IN  Ok(UserResponse(user, IF role.err = "" THEN role.val.Name ELSE "Unknown"))

----------------------------------------------------------------------------
(* utils (second half of src/internal/database/mongodb.go) *)

jwtSecret == "JWT_SECRET"
passwordResetSecret == "PASSWORD_RESET_SECRET"

\* bcrypt: the hash determines which password matches it
HashPassword(password) == [bcrypt |-> password]
CheckPasswordHash(password, hash) == hash.bcrypt = password

\* A signed token: the algorithm of its header, the key of its signature, its claims.
\* A faulty variant of the generator below: the lifetime of a reset token.
GenerateTokenShortLived(userID, email, roleID, secretKey) ==
    [alg |-> "HS256", key |-> secretKey,
     claims |-> [user_id |-> Hex(userID), email |-> email, role_id |-> Hex(roleID),
                 exp |-> now + Hour, iss |-> "taskflow-api", aud |-> "taskflow-clients"]]

GenerateToken(userID, email, roleID, secretKey) ==
    [alg |-> "HS256", key |-> secretKey,
     claims |-> [user_id |-> Hex(userID), email |-> email, role_id |-> Hex(roleID),
                 exp |-> now + Day, iss |-> "taskflow-api", aud |-> "taskflow-clients"]]

GeneratePasswordResetToken(userID, secretKey) ==
    [alg |-> "HS256", key |-> secretKey,
     claims |-> [user_id |-> Hex(userID), exp |-> now + Hour, iss |-> "taskflow-api-reset"]]

\* A faulty variant of the generator below: the claims of a session token.
GenerateVerificationTokenWithRole(userID, secretKey) ==
    [alg |-> "HS256", key |-> secretKey,
     claims |-> [user_id |-> userID, role_id |-> Hex(Oid("role", 3)),
                 exp |-> now + Day, iss |-> "taskflow-api-verify"]]

GenerateVerificationToken(userID, secretKey) ==
    [alg |-> "HS256", key |-> secretKey,
     claims |-> [user_id |-> userID, exp |-> now + Day, iss |-> "taskflow-api-verify"]]

\* jwt.Parse with the key function every caller passes: an HMAC method is
\* required, the signature must be the secret's, and exp (when present) must
\* be in the future.
\* A faulty variant of the parse below: the exp claim is not looked at.
JwtParseNoExpiry(token, secretKey) ==
    IF token.alg \notin {"HS256", "HS384", "HS512"} THEN Err("unexpected signing method")
    ELSE IF token.key # secretKey THEN Err("signature is invalid")
    ELSE Ok(token.claims)

JwtParse(token, secretKey) ==
    IF token.alg \notin {"HS256", "HS384", "HS512"} THEN Err("unexpected signing method")
    ELSE IF token.key # secretKey THEN Err("signature is invalid")
    ELSE IF "exp" \in DOMAIN token.claims /\ ~(now < token.claims.exp) THEN Err("token is expired")
    ELSE Ok(token.claims)

ValidatePasswordResetToken(token, secretKey) ==
    LET p == JwtParse(token, secretKey)
    IN  IF p.err # "" THEN Err(p.err)
        ELSE IF "user_id" \notin DOMAIN p.val THEN Err("user ID claim missing from reset token")
        ELSE LET o == ObjectIDFromHex(p.val.user_id)
             IN  IF ~o.ok THEN Err("invalid user ID format in reset token")
                 ELSE Ok(o.oid)

StatusOK == 200
StatusCreated == 201
StatusNoContent == 204
StatusBadRequest == 400
StatusUnauthorized == 401
StatusForbidden == 403
StatusNotFound == 404
StatusConflict == 409
StatusInternalServerError == 500

\* RespondWithJSON marshals the payload, sets Content-Type and calls w.Write;
\* it never calls w.WriteHeader(code), so net/http sends the implicit 200.
RespondWithJSON(code, payload) == [status |-> StatusOK, body |-> payload]

RespondWithError(code, message) ==
    RespondWithJSON(code, [error |-> TRUE, message |-> message])

Message(m) == [message |-> m]

----------------------------------------------------------------------------
(* services/auth_service.go and middleware (src/unnamed/part_006) *)

\* A faulty variant of the lookup below: the permissions taken from the table
\* the roles were seeded with at start-up instead of the stored role document.
AuthenticatedUserContextSeeded(userID, roleID) ==
    LET user == GetUserByID(Hex(userID))
        role == GetRoleByID(Hex(roleID))
        seeded == SeedDefaultRoles(EmptyCollection)
    IN  IF user.err # "" THEN Err("user not found: " \o user.err)
        ELSE IF role.err # "" THEN Err("user role not found: " \o role.err)
        ELSE Ok([UserID |-> user.val.ID, RoleID |-> role.val.ID,
                 RoleName |-> role.val.Name,
                 Permissions |-> IF roleID \in DOMAIN seeded
                                 THEN seeded[roleID].Permissions ELSE << >>,
                 IsEmailVerified |-> user.val.IsEmailVerified,
                 NeedsPasswordChange |-> user.val.NeedsPasswordChange])

\* A faulty variant of the lookup below: a role that is gone gives a context
\* with the role name "Unknown" and no permission, as GetUserResponseByID does.
AuthenticatedUserContextUnknownRole(userID, roleID) ==
    LET user == GetUserByID(Hex(userID))
        role == GetRoleByID(Hex(roleID))
    IN  IF user.err # "" THEN Err("user not found: " \o user.err)
        ELSE Ok([UserID |-> user.val.ID, RoleID |-> roleID,
                 RoleName |-> IF role.err # "" THEN "Unknown" ELSE role.val.Name,
                 Permissions |-> IF role.err # "" THEN << >> ELSE role.val.Permissions,
                 IsEmailVerified |-> user.val.IsEmailVerified,
                 NeedsPasswordChange |-> user.val.NeedsPasswordChange])

AuthenticatedUserContext(userID, roleID) ==
    LET user == GetUserByID(Hex(userID))
        role == GetRoleByID(Hex(roleID))
    IN  IF user.err # "" THEN Err("user not found: " \o user.err)
        ELSE IF role.err # "" THEN Err("user role not found: " \o role.err)
        ELSE Ok([UserID |-> user.val.ID, RoleID |-> role.val.ID,
                 RoleName |-> role.val.Name, Permissions |-> role.val.Permissions,
                 IsEmailVerified |-> user.val.IsEmailVerified,
                 NeedsPasswordChange |-> user.val.NeedsPasswordChange])

\* The Authorization header of a request.
NoHeader == [kind |-> "none"]
MalformedHeader == [kind |-> "malformed"]
Bearer(token) == [kind |-> "bearer", token |-> token]

Rejected(r) == [ok |-> FALSE, resp |-> r]
Admitted(ac) == [ok |-> TRUE, ctx |-> ac]

\* JWTAuth up to the call of the wrapped handler: a rejection, or the AuthContext
\* the handler runs with.
JWTAuth(header, requiredPermission) ==
    IF header.kind = "none"
    THEN Rejected(RespondWithError(StatusUnauthorized, "Missing authorization header"))
    ELSE IF header.kind # "bearer"
    THEN Rejected(RespondWithError(StatusUnauthorized, "Invalid authorization header format"))
    ELSE LET p == JwtParse(header.token, jwtSecret)
         IN  IF p.err # ""
             THEN Rejected(RespondWithError(StatusUnauthorized,
                                                "Invalid or expired token: " \o p.err))
             ELSE IF "user_id" \notin DOMAIN p.val
             THEN Rejected(RespondWithError(StatusUnauthorized, "User ID claim missing or invalid"))
             ELSE IF "role_id" \notin DOMAIN p.val
             THEN Rejected(RespondWithError(StatusUnauthorized, "Role ID claim missing or invalid"))
             ELSE LET uid == ObjectIDFromHex(p.val.user_id)
                      rid == ObjectIDFromHex(p.val.role_id)
                  IN  IF ~uid.ok
                      THEN Rejected(RespondWithError(StatusInternalServerError, "Invalid user ID format in token"))
                      ELSE IF ~rid.ok
                      THEN Rejected(RespondWithError(StatusInternalServerError, "Invalid role ID format in token"))
                      ELSE LET ac == AuthenticatedUserContext(uid.oid, rid.oid)
                           IN  IF ac.err # ""
                               THEN Rejected(RespondWithError(StatusInternalServerError,
                                        "Failed to retrieve user authentication context: " \o ac.err))
                               ELSE IF requiredPermission # "" /\ ~HasPermission(ac.val, requiredPermission)
                               THEN Rejected(RespondWithError(StatusForbidden,
                                        "You do not have sufficient permissions to access this resource"))
                               ELSE Admitted(ac.val)

----------------------------------------------------------------------------
(* api/routes.go: the permission each protected route passes to JWTAuth *)

\* A faulty variant of the table below: the role route asks for the
\* permission of the profile route.
RequiredPermissionRoleAsProfile(route) ==
    CASE route = "POST /auth/verify_email" -> ""
      [] route = "POST /auth/change_temp_password" -> ""
      [] route = "POST /users/admin" -> "user:create_admin"
      [] route = "GET /users/{id}" -> "user:read_own"
      [] route = "PUT /users/{id}/role" -> "user:update_profile"
      [] route = "PUT /users/{id}/profile" -> "user:update_profile"
      [] route = "GET /users" -> "user:read_all"
      [] route = "POST /tasks" -> "task:create"
      [] route = "GET /tasks" -> "task:read_own"
      [] route = "GET /tasks/{id}" -> "task:read_own"
      [] route = "PUT /tasks/{id}" -> "task:update_own"
      [] route = "DELETE /tasks/{id}" -> "task:delete_own"
      [] route = "GET /dashboard/metrics" -> "dashboard:read_metrics"
      [] route = "POST /upload" -> "user:update_profile"

RequiredPermission(route) ==
    CASE route = "POST /auth/verify_email" -> ""
      [] route = "POST /auth/change_temp_password" -> ""
      [] route = "POST /users/admin" -> "user:create_admin"
      [] route = "GET /users/{id}" -> "user:read_own"
      [] route = "PUT /users/{id}/role" -> "user:update_role"
      [] route = "PUT /users/{id}/profile" -> "user:update_profile"
      [] route = "GET /users" -> "user:read_all"
      [] route = "POST /tasks" -> "task:create"
      [] route = "GET /tasks" -> "task:read_own"
      [] route = "GET /tasks/{id}" -> "task:read_own"
      [] route = "PUT /tasks/{id}" -> "task:update_own"
      [] route = "DELETE /tasks/{id}" -> "task:delete_own"
      [] route = "GET /dashboard/metrics" -> "dashboard:read_metrics"
      [] route = "POST /upload" -> "user:update_profile"

----------------------------------------------------------------------------
(* What a handler does: the response it writes and the collections after. *)

Outcome(r, u, t, n) == [resp |-> r, users |-> u, tasks |-> t, taskSeq |-> n]
Reply(r) == Outcome(r, users, tasks, taskSeq)

Nil == "<nil>"       \* an omitted optional field of a request
BadJSON == [json |-> FALSE]

----------------------------------------------------------------------------
(* services: mutations of the users collection *)

\* UserService.CreateUser: a fresh ObjectID, the insert, the response
CreateUser(user) ==
    LET id == Oid("user", Cardinality(DOMAIN users) + 1)
        doc == [user EXCEPT !.ID = id]
        role == GetRoleByID(Hex(doc.RoleID))
        coll == [u \in DOMAIN users \cup {id} |-> IF u = id THEN doc ELSE users[u]]
    IN  IF role.err # ""
        THEN [err |-> "failed to retrieve role for new user", users |-> coll]
        ELSE [err |-> "", users |-> coll, val |-> UserResponse(doc, role.val.Name)]

\* A faulty variant of the registration below: every new account is told to
\* change its password.
RegisterUserAlwaysFlagged(req, isAdminCreation, tempPassword) ==
    IF GetUserByEmail(req.Email).err = ""
    THEN [err |-> "email already registered", users |-> users]
    ELSE LET role == GetRoleByName(IF isAdminCreation THEN "Admin" ELSE "User")
         IN  IF role.err # ""
             THEN [err |-> IF isAdminCreation THEN "admin role not found"
                           ELSE "default user role not found", users |-> users]
             ELSE CreateUser([ID |-> NilObjectID, FirstName |-> "New", Email |-> req.Email,
                              Password |-> HashPassword(IF isAdminCreation THEN tempPassword
                                                        ELSE req.Password),
                              RoleID |-> role.val.ID, IsEmailVerified |-> FALSE,
                              NeedsPasswordChange |-> TRUE])

\* AuthService.RegisterUser: the role is Admin for an admin creation and User
\* otherwise; needs_password_change is set only for an admin creation.
RegisterUser(req, isAdminCreation, tempPassword) ==
    IF GetUserByEmail(req.Email).err = ""
    THEN [err |-> "email already registered", users |-> users]
    ELSE LET role == GetRoleByName(IF isAdminCreation THEN "Admin" ELSE "User")
         IN  IF role.err # ""
             THEN [err |-> IF isAdminCreation THEN "admin role not found"
                           ELSE "default user role not found", users |-> users]
             ELSE CreateUser([ID |-> NilObjectID, FirstName |-> "New", Email |-> req.Email,
                              Password |-> HashPassword(IF isAdminCreation THEN tempPassword
                                                        ELSE req.Password),
                              RoleID |-> role.val.ID, IsEmailVerified |-> FALSE,
                              NeedsPasswordChange |-> isAdminCreation])

\* A faulty variant of the login below: the flag is not passed on.
LoginUserHidesFlag(req) ==
    LET user == GetUserByEmail(req.Email)
    IN  IF user.err # "" THEN Err("invalid credentials")
        ELSE IF ~CheckPasswordHash(req.Password, user.val.Password) THEN Err("invalid credentials")
        ELSE LET role == GetRoleByID(Hex(user.val.RoleID))
             IN  IF role.err # "" THEN Err("user role not found")
                 ELSE Ok([Message |-> "Login successful",
                          Token |-> GenerateToken(user.val.ID, user.val.Email,
                                                  user.val.RoleID, jwtSecret),
                          UserID |-> Hex(user.val.ID), RoleName |-> role.val.Name,
                          NeedsPasswordChange |-> FALSE])

\* AuthService.LoginUser
LoginUser(req) ==
    LET user == GetUserByEmail(req.Email)
    IN  IF user.err # "" THEN Err("invalid credentials")
        ELSE IF ~CheckPasswordHash(req.Password, user.val.Password) THEN Err("invalid credentials")
        ELSE LET role == GetRoleByID(Hex(user.val.RoleID))
             IN  IF role.err # "" THEN Err("user role not found")
                 ELSE Ok([Message |-> "Login successful",
                          Token |-> GenerateToken(user.val.ID, user.val.Email,
                                                  user.val.RoleID, jwtSecret),
                          UserID |-> Hex(user.val.ID), RoleName |-> role.val.Name,
                          NeedsPasswordChange |-> user.val.NeedsPasswordChange])

\* A faulty variant of the update below: the _id filter left empty, so that
\* UpdateOne changes the first document of the collection.
UpdateUserPasswordNoFilter(userID, hashedPassword) ==
    LET first == CHOOSE u \in DOMAIN users : \A v \in DOMAIN users : u[2] <= v[2]
    IN  [err |-> "", users |-> [users EXCEPT ![first].Password = hashedPassword]]

\* A faulty variant of the update below: needs_password_change is cleared
\* along with the new password.
UpdateUserPasswordClearsFlag(userID, hashedPassword) ==
    IF userID \notin DOMAIN users
    THEN [err |-> "user not found or password not changed", users |-> users]
    ELSE [err |-> "", users |-> [users EXCEPT ![userID].Password = hashedPassword,
                                             ![userID].NeedsPasswordChange = FALSE]]

\* UserService.UpdateUserPassword: $set password by _id
UpdateUserPassword(userID, hashedPassword) ==
    IF userID \notin DOMAIN users
    THEN [err |-> "user not found or password not changed", users |-> users]
    ELSE [err |-> "", users |-> [users EXCEPT ![userID].Password = hashedPassword]]

\* UserService.UpdateUserRole
UserService_UpdateUserRole(userID, newRoleName) ==
    LET o == ObjectIDFromHex(userID)
        newRole == GetRoleByName(newRoleName)
    IN  IF ~o.ok THEN [err |-> "invalid user ID format", users |-> users]
        ELSE IF newRole.err # "" THEN [err |-> "new role not found", users |-> users]
        ELSE IF o.oid \notin DOMAIN users
        THEN [err |-> "user not found or role not changed", users |-> users]
        ELSE LET coll == [users EXCEPT ![o.oid].RoleID = newRole.val.ID]
             IN  [err |-> "", users |-> coll, val |-> GetUserResponseByID(userID, coll).val]

\* UserService.UpdateUserProfile
UserService_UpdateUserProfile(userID, req) ==
    LET o == ObjectIDFromHex(userID)
    IN  IF ~o.ok THEN [err |-> "invalid user ID format", users |-> users]
        ELSE IF o.oid \notin DOMAIN users
        THEN [err |-> "user not found or no changes made to profile", users |-> users]
        ELSE LET coll == IF req.FirstName # Nil
                         THEN [users EXCEPT ![o.oid].FirstName = req.FirstName]
                         ELSE users
             IN  [err |-> "", users |-> coll, val |-> GetUserResponseByID(userID, coll).val]

----------------------------------------------------------------------------
(* handlers/auth_handler (src/unnamed/part_001): the public routes *)

AuthHandler_RegisterUser(req) ==
    IF ~req.json THEN Reply(RespondWithError(StatusBadRequest, "Invalid request payload"))
    ELSE IF req.Email = "" \/ req.Password = ""
    THEN Reply(RespondWithError(StatusBadRequest, "validation failed"))
    ELSE LET r == RegisterUser(req, FALSE, "")
         IN  IF r.err = "email already registered"
             THEN Reply(RespondWithError(StatusConflict, r.err))
             ELSE IF r.err # ""
             THEN Outcome(RespondWithError(StatusInternalServerError, "Failed to register user"),
                          r.users, tasks, taskSeq)
             ELSE Outcome(RespondWithJSON(StatusCreated, r.val), r.users, tasks, taskSeq)

AuthHandler_LoginUser(req) ==
    IF ~req.json THEN Reply(RespondWithError(StatusBadRequest, "Invalid request payload"))
    ELSE IF req.Email = "" \/ req.Password = ""
    THEN Reply(RespondWithError(StatusBadRequest, "validation failed"))
    ELSE LET r == LoginUser(req)
         IN  IF r.err # "" THEN Reply(RespondWithError(StatusUnauthorized, r.err))
             ELSE Reply(RespondWithJSON(StatusOK, r.val))

----------------------------------------------------------------------------
(* handlers/user_handler.go *)

UserHandler_CreateAdminUser(ac, req, tempPassword) ==
    IF ~req.json THEN Reply(RespondWithError(StatusBadRequest, "Invalid request payload"))
    ELSE IF req.Email = "" \/ req.Password = ""
    THEN Reply(RespondWithError(StatusBadRequest, "validation failed"))
    ELSE LET r == RegisterUser(req, TRUE, tempPassword)
         IN  IF r.err = "email already registered"
             THEN Reply(RespondWithError(StatusConflict, r.err))
             ELSE IF r.err # ""
             THEN Outcome(RespondWithError(StatusInternalServerError, "Failed to create admin user"),
                          r.users, tasks, taskSeq)
             ELSE Outcome(RespondWithJSON(StatusCreated,
                              [message |-> "Admin user created successfully. Temporary password sent to email.",
                               user_id |-> r.val.ID, email |-> r.val.Email]),
                          r.users, tasks, taskSeq)

UserHandler_GetUserByID(ac, targetUserID) ==
    IF Hex(ac.UserID) = targetUserID
    THEN LET u == GetUserResponseByID(targetUserID, users)
         IN  IF u.err # "" THEN Reply(RespondWithError(StatusNotFound, u.err))
             ELSE Reply(RespondWithJSON(StatusOK, u.val))
    ELSE IF ~HasPermission(ac, "user:read_all")
    THEN Reply(RespondWithError(StatusForbidden,
                   "You do not have permission to view this user's profile"))
    ELSE LET u == GetUserResponseByID(targetUserID, users)
         IN  IF u.err # "" THEN Reply(RespondWithError(StatusNotFound, u.err))
             ELSE Reply(RespondWithJSON(StatusOK, u.val))

\* A faulty variant of the guard below: the comparison of the ids inverted.
PeerAdminGuardInverted(targetRole, ac, targetUserID) ==
    targetRole.Name = "Admin" /\ ac.RoleName = "Admin" /\ targetUserID = Hex(ac.UserID)

\* user_handler.go:145  one Admin may not change another Admin's role
PeerAdminGuard(targetRole, ac, targetUserID) ==
    targetRole.Name = "Admin" /\ ac.RoleName = "Admin" /\ targetUserID # Hex(ac.UserID)

\* user_handler.go:150  the guard commented "prevent an admin from demoting themselves"
SelfDemotionGuard(req, ac, targetUserID) ==
    req.RoleName = "Admin" /\ ac.RoleName = "Admin" /\ targetUserID = Hex(ac.UserID)

UserHandler_UpdateUserRole(ac, targetUserID, req) ==
    IF ~req.json THEN Reply(RespondWithError(StatusBadRequest, "Invalid request payload"))
    ELSE IF req.RoleName = "" THEN Reply(RespondWithError(StatusBadRequest, "validation failed"))
    ELSE LET targetUser == GetUserByID(targetUserID)
         IN  IF targetUser.err # ""
             THEN Reply(RespondWithError(StatusNotFound, "Target user not found"))
             ELSE LET targetRole == GetRoleByID(Hex(targetUser.val.RoleID))
                  IN  IF targetRole.err # ""
                      THEN Reply(RespondWithError(StatusInternalServerError,
                                     "Could not determine target user's current role"))
                      ELSE IF PeerAdminGuard(targetRole.val, ac, targetUserID)
                      THEN Reply(RespondWithError(StatusForbidden,
                                     "You cannot change the role of another Admin."))
                      ELSE IF SelfDemotionGuard(req, ac, targetUserID)
                      THEN Reply(RespondWithError(StatusForbidden,
                                     "You cannot change your own role from Admin."))
                      ELSE LET r == UserService_UpdateUserRole(targetUserID, req.RoleName)
                           IN  IF r.err # ""
                               THEN Reply(RespondWithError(StatusBadRequest, r.err))
                               ELSE Outcome(RespondWithJSON(StatusOK, r.val),
                                            r.users, tasks, taskSeq)

\* user_handler.go:197-202  own profile, or the permission for any profile
ProfileUpdateDenied(ac, targetUserID) ==
    Hex(ac.UserID) # targetUserID /\ ~HasPermission(ac, "user:update_profile")

UserHandler_UpdateUserProfile(ac, targetUserID, req) ==
    IF ~req.json THEN Reply(RespondWithError(StatusBadRequest, "Invalid request payload"))
    ELSE IF ProfileUpdateDenied(ac, targetUserID)
    THEN Reply(RespondWithError(StatusForbidden,
                   "You do not have permission to update this user's profile"))
    ELSE LET r == UserService_UpdateUserProfile(targetUserID, req)
         IN  IF r.err # "" THEN Reply(RespondWithError(StatusNotFound, r.err))
             ELSE Outcome(RespondWithJSON(StatusOK, r.val), r.users, tasks, taskSeq)

----------------------------------------------------------------------------
(* services/task_service (src/unnamed/part_004) *)

TaskService_GetTaskByID(id) ==
    LET o == ObjectIDFromHex(id)
    IN  IF ~o.ok THEN Err("invalid task ID format")
        ELSE IF o.oid \notin DOMAIN tasks THEN Err("task not found")
        ELSE Ok(tasks[o.oid])

TaskService_CreateTask(task) ==
    LET id == Oid("task", taskSeq + 1)
        doc == [task EXCEPT !.ID = id]
    IN  [err |-> "", val |-> doc,
         tasks |-> [t \in DOMAIN tasks \cup {id} |-> IF t = id THEN doc ELSE tasks[t]]]

TaskService_UpdateTask(id, update) ==
    LET o == ObjectIDFromHex(id)
    IN  IF ~o.ok THEN [err |-> "invalid task ID format", tasks |-> tasks]
        ELSE IF o.oid \notin DOMAIN tasks
        THEN [err |-> "task not found or no changes made", tasks |-> tasks]
        ELSE LET old == tasks[o.oid]
                 doc == [old EXCEPT !.Title = IF update.Title # Nil THEN update.Title ELSE old.Title,
                                    !.Status = IF update.Status # Nil THEN update.Status ELSE old.Status]
             IN  [err |-> "", val |-> doc, tasks |-> [tasks EXCEPT ![o.oid] = doc]]

TaskService_DeleteTask(id) ==
    LET o == ObjectIDFromHex(id)
    IN  IF ~o.ok THEN [err |-> "invalid task ID format", tasks |-> tasks]
        ELSE IF o.oid \notin DOMAIN tasks THEN [err |-> "task not found", tasks |-> tasks]
        ELSE [err |-> "", tasks |-> [t \in DOMAIN tasks \ {o.oid} |-> tasks[t]]]

\* primitive.Regex{Pattern, Options: "i"} against a stored string: the patterns
\* requests carry, matched without regard to case; "(" does not compile.
RegexCompiles(pattern) == pattern # "("
RegexMatch(pattern, text) ==
    CASE pattern = "task" -> text \in {"task A", "task B"}
      [] pattern = "task a" -> text = "task A"
      [] OTHER -> FALSE

\* The documents a query selects: every key of the filter must match, and
\* with a search pattern the title or the description must match it too
\* (no modelled request sets a description: it is stored as "").
Selected(filter, searchQuery) ==
    {t \in DOMAIN tasks :
        /\ filter.user_id.set => tasks[t].UserID = filter.user_id.val
        /\ filter.status # "" => tasks[t].Status = filter.status
        /\ searchQuery # "" => \/ RegexMatch(searchQuery, tasks[t].Title)
                               \/ RegexMatch(searchQuery, "")}

\* SetSort created_at descending: task ids are handed out in creation order
RECURSIVE NewestFirst(_)
NewestFirst(ids) ==
    IF ids = {} THEN << >>
    ELSE LET newest == CHOOSE t \in ids : \A o \in ids : o[2] <= t[2]
         IN  <<tasks[newest]>> \o NewestFirst(ids \ {newest})

TaskService_ListTasks(filter, searchQuery, page, limit) ==
    IF searchQuery # "" /\ ~RegexCompiles(searchQuery) THEN Err("regular expression is invalid")
    ELSE LET skip == IF (page - 1) * limit < 0 THEN 0 ELSE (page - 1) * limit
             found == NewestFirst(Selected(filter, searchQuery))
             last == IF skip + limit < Len(found) THEN skip + limit ELSE Len(found)
         IN  Ok([Tasks |-> SubSeq(found, skip + 1, last),
                 TotalCount |-> Len(found), Page |-> page, Limit |-> limit])

----------------------------------------------------------------------------
(* handlers/task_handler.go *)

TaskHandler_CreateTask(ac, req) ==
    IF ~req.json THEN Reply(RespondWithError(StatusBadRequest, "Invalid request payload"))
    ELSE IF req.Title = "" THEN Reply(RespondWithError(StatusBadRequest, "validation failed"))
    ELSE LET r == TaskService_CreateTask(
                      [ID |-> NilObjectID, Title |-> req.Title,
                       Status |-> IF req.Status = "" THEN "todo" ELSE req.Status,
                       UserID |-> ac.UserID])
         IN  Outcome(RespondWithJSON(StatusCreated, r.val), users, r.tasks, taskSeq + 1)

\* task_handler.go:162  'task:read_all' or owner
ViewTaskDenied(ac, task) == ~HasPermission(ac, "task:read_all") /\ task.UserID # ac.UserID
\* A faulty variant of the check below: the owner is not let through.
UpdateTaskDeniedOwnerToo(ac, task) == ~HasPermission(ac, "task:update_all")

\* task_handler.go:203  'task:update_all' or owner
UpdateTaskDenied(ac, task) == ~HasPermission(ac, "task:update_all") /\ task.UserID # ac.UserID
\* task_handler.go:243  'task:delete_all' or owner
DeleteTaskDenied(ac, task) == ~HasPermission(ac, "task:delete_all") /\ task.UserID # ac.UserID

TaskHandler_GetTaskByID(ac, taskID) ==
    LET task == TaskService_GetTaskByID(taskID)
    IN  IF task.err = "task not found" THEN Reply(RespondWithError(StatusNotFound, task.err))
        ELSE IF task.err # ""
        THEN Reply(RespondWithError(StatusInternalServerError, "Failed to retrieve task"))
        ELSE IF ViewTaskDenied(ac, task.val)
        THEN Reply(RespondWithError(StatusForbidden, "You do not have permission to view this task"))
        ELSE Reply(RespondWithJSON(StatusOK, task.val))

TaskHandler_UpdateTask(ac, taskID, req) ==
    IF ~req.json THEN Reply(RespondWithError(StatusBadRequest, "Invalid request payload"))
    ELSE LET task == TaskService_GetTaskByID(taskID)
         IN  IF task.err = "task not found" THEN Reply(RespondWithError(StatusNotFound, task.err))
             ELSE IF task.err # ""
             THEN Reply(RespondWithError(StatusInternalServerError, "Failed to retrieve task for update"))
             ELSE IF UpdateTaskDenied(ac, task.val)
             THEN Reply(RespondWithError(StatusForbidden, "You do not have permission to update this task"))
             ELSE LET r == TaskService_UpdateTask(taskID, req)
                  IN  IF r.err = "task not found or no changes made"
                      THEN Reply(RespondWithError(StatusNotFound, r.err))
                      ELSE IF r.err # ""
                      THEN Reply(RespondWithError(StatusInternalServerError, "Failed to update task"))
                      ELSE Outcome(RespondWithJSON(StatusOK, r.val), users, r.tasks, taskSeq)

\* DeleteTask answers a successful deletion with w.WriteHeader(204) and no body
NoContent == [status |-> StatusNoContent, body |-> [message |-> ""]]

TaskHandler_DeleteTask(ac, taskID) ==
    LET task == TaskService_GetTaskByID(taskID)
    IN  IF task.err = "task not found" THEN Reply(RespondWithError(StatusNotFound, task.err))
        ELSE IF task.err # ""
        THEN Reply(RespondWithError(StatusInternalServerError, "Failed to retrieve task for deletion check"))
        ELSE IF DeleteTaskDenied(ac, task.val)
        THEN Reply(RespondWithError(StatusForbidden, "You do not have permission to delete this task"))
        ELSE LET r == TaskService_DeleteTask(taskID)
             IN  IF r.err = "task not found" THEN Reply(RespondWithError(StatusNotFound, r.err))
                 ELSE IF r.err # ""
                 THEN Reply(RespondWithError(StatusInternalServerError, "Failed to delete task"))
                 ELSE Outcome(NoContent, users, r.tasks, taskSeq)

----------------------------------------------------------------------------
(* The authentication-only routes: email verification and the change of a *)
(* temporary password (services/auth_service.go, src/unnamed/part_001).   *)

\* The validator's `min=6` on new_password: the passwords it refuses.
ShortPasswords == {"short"}

\* UserService.VerifyUserEmail: $set is_email_verified and updated_at by _id
VerifyUserEmail(userID) ==
    IF userID \notin DOMAIN users
    THEN [err |-> "user not found or email already verified", users |-> users]
    ELSE [err |-> "", users |-> [users EXCEPT ![userID].IsEmailVerified = TRUE]]

\* UserService.UpdateUserPasswordAndNeedsChange: $set password,
\* needs_password_change and updated_at by _id
UpdateUserPasswordAndNeedsChange(userID, hashedPassword, needsChange) ==
    IF userID \notin DOMAIN users
    THEN [err |-> "user not found or password/needs_password_change not updated",
          users |-> users]
    ELSE [err |-> "",
          users |-> [users EXCEPT ![userID].Password = hashedPassword,
                                  ![userID].NeedsPasswordChange = needsChange]]

\* AuthService.ChangeTemporaryPassword
ChangeTemporaryPassword(userID, oldPassword, newPassword) ==
    LET user == GetUserByID(Hex(userID))
    IN  IF user.err # "" THEN [err |-> "user not found", users |-> users]
        ELSE IF ~user.val.NeedsPasswordChange
        THEN [err |-> "password change not required for this account", users |-> users]
        ELSE IF ~CheckPasswordHash(oldPassword, user.val.Password)
        THEN [err |-> "invalid old password", users |-> users]
        ELSE LET r == UpdateUserPasswordAndNeedsChange(userID, HashPassword(newPassword), FALSE)
             IN  IF r.err # "" THEN [err |-> "failed to update password", users |-> users]
                 ELSE [err |-> "", users |-> r.users]

\* AuthHandler.ChangeTemporaryPassword
AuthHandler_ChangeTemporaryPassword(ac, req) ==
    IF ~req.json THEN Reply(RespondWithError(StatusBadRequest, "Invalid request payload"))
    ELSE IF req.OldPassword = "" \/ req.NewPassword \in ShortPasswords \cup {""}
    THEN Reply(RespondWithError(StatusBadRequest, "validation failed"))
    ELSE IF ~ac.NeedsPasswordChange
    THEN Reply(RespondWithError(StatusForbidden, "Password change not required for this account."))
    ELSE LET r == ChangeTemporaryPassword(ac.UserID, req.OldPassword, req.NewPassword)
         IN  IF r.err # "" THEN Reply(RespondWithError(StatusBadRequest, r.err))
             ELSE Outcome(RespondWithJSON(StatusOK,
                      Message("Password updated successfully. You can now access the dashboard.")),
                      r.users, tasks, taskSeq)

\* AuthHandler.VerifyEmail: the `token` query parameter only has to be there;
\* the user verified is the one of the session.
AuthHandler_VerifyEmail(ac, tokenString) ==
    IF tokenString = "" THEN Reply(RespondWithError(StatusBadRequest, "Missing verification token"))
    ELSE IF ac.IsEmailVerified
    THEN Reply(RespondWithError(StatusBadRequest, "Email already verified"))
    ELSE LET r == VerifyUserEmail(ac.UserID)
         IN  IF r.err # "" THEN Reply(RespondWithError(StatusInternalServerError, r.err))
             ELSE Outcome(RespondWithJSON(StatusOK, Message("Email verified successfully.")),
                          r.users, tasks, taskSeq)

\* strings.ToLower on the status values requests carry
ToLower(str) == IF str = "TODO" THEN "todo" ELSE str

NoFilter == [set |-> FALSE, val |-> NilObjectID]

\* A faulty variant of the filter below: a user_id parameter is honoured
\* whoever asks.
OwnerFilterTrustsParam(ac, targetUserIDParam) ==
    IF targetUserIDParam.set
    THEN LET o == ObjectIDFromHex(targetUserIDParam.val)
         IN  IF ~o.ok THEN Err("Invalid user_id filter format")
             ELSE Ok([set |-> TRUE, val |-> o.oid])
    ELSE IF ~HasPermission(ac, "task:read_all") THEN Ok([set |-> TRUE, val |-> ac.UserID])
    ELSE Ok(NoFilter)

\* task_handler.go:101-116  the user_id key of the filter: the actor's own id
\* without 'task:read_all', else the user_id parameter when one is given
OwnerFilter(ac, targetUserIDParam) ==
    IF ~HasPermission(ac, "task:read_all") THEN Ok([set |-> TRUE, val |-> ac.UserID])
    ELSE IF targetUserIDParam.set
    THEN LET o == ObjectIDFromHex(targetUserIDParam.val)
         IN  IF ~o.ok THEN Err("Invalid user_id filter format")
             ELSE Ok([set |-> TRUE, val |-> o.oid])
    ELSE Ok(NoFilter)

\* req carries the query parameters: page and limit as strconv.ParseInt
\* reads them ([ok, n]), status, user_id ([set, val]) and search.
TaskHandler_GetTasks(ac, req) ==
    LET page == IF ~req.page.ok \/ req.page.n < 1 THEN 1 ELSE req.page.n
        limit == IF ~req.limit.ok \/ req.limit.n < 1 \/ req.limit.n > 100 THEN 10 ELSE req.limit.n
        owner == OwnerFilter(ac, req.user_id)
    IN  IF owner.err # "" THEN Reply(RespondWithError(StatusBadRequest, owner.err))
        ELSE IF req.status # "" /\ ToLower(req.status) \notin {"todo", "in_progress", "done"}
        THEN Reply(RespondWithError(StatusBadRequest,
                       "Invalid status filter. Must be 'todo', 'in_progress', or 'done'."))
        ELSE LET r == TaskService_ListTasks(
                          [user_id |-> owner.val, status |-> ToLower(req.status)],
                          req.search, page, limit)
             IN  IF r.err # ""
                 THEN Reply(RespondWithError(StatusInternalServerError, "Failed to retrieve tasks"))
                 ELSE Reply(RespondWithJSON(StatusOK, r.val))

----------------------------------------------------------------------------
(* A protected route: JWTAuth, then the wrapped handler with the context. *)

Serve(route, header, target, req, rnd) ==
    LET gate == JWTAuth(header, RequiredPermission(route))
    IN  IF ~gate.ok THEN Reply(gate.resp)
        ELSE CASE route = "POST /auth/verify_email" -> AuthHandler_VerifyEmail(gate.ctx, target)
               [] route = "POST /auth/change_temp_password" ->
                      AuthHandler_ChangeTemporaryPassword(gate.ctx, req)
               [] route = "POST /users/admin" -> UserHandler_CreateAdminUser(gate.ctx, req, rnd)
               [] route = "GET /users/{id}" -> UserHandler_GetUserByID(gate.ctx, target)
               [] route = "PUT /users/{id}/role" -> UserHandler_UpdateUserRole(gate.ctx, target, req)
               [] route = "PUT /users/{id}/profile" -> UserHandler_UpdateUserProfile(gate.ctx, target, req)
               [] route = "POST /tasks" -> TaskHandler_CreateTask(gate.ctx, req)
               [] route = "GET /tasks" -> TaskHandler_GetTasks(gate.ctx, req)
               [] route = "GET /tasks/{id}" -> TaskHandler_GetTaskByID(gate.ctx, target)
               [] route = "PUT /tasks/{id}" -> TaskHandler_UpdateTask(gate.ctx, target, req)
               [] route = "DELETE /tasks/{id}" -> TaskHandler_DeleteTask(gate.ctx, target)

----------------------------------------------------------------------------
(* The inputs requests are drawn from. *)

Email(n) == <<"mail", n>>
Emails == {Email(n) : n \in 1..MaxUsers}
UnknownEmail == Email(0)
Passwords == {"pw1"}                 \* passwords users choose
TempPasswords == {"tmp"}             \* utils.GenerateRandomString(12)
NewPasswords == {"new1"}             \* passwords set by a reset or a change
WrongPassword == "bad"
RoleNames == {"Admin", "Manager", "User", "Guest"}
FirstNames == {"New", "Edited"}
Titles == {"task A", "task B"}

Credentials == {[json |-> TRUE, Email |-> e, Password |-> p] :
                    e \in Emails, p \in Passwords}
LoginRequests == {[json |-> TRUE, Email |-> e, Password |-> p] :
                    e \in Emails \cup {UnknownEmail},
                    p \in Passwords \cup TempPasswords \cup NewPasswords \cup {WrongPassword}}
RoleRequests == {[json |-> TRUE, RoleName |-> n] : n \in RoleNames \cup {""}} \cup {BadJSON}
ProfileRequests == {[json |-> TRUE, FirstName |-> f] : f \in FirstNames \cup {Nil}} \cup {BadJSON}
CreateTaskRequests == {[json |-> TRUE, Title |-> t, Status |-> ""] : t \in Titles \cup {""}}
                          \cup {BadJSON}
UpdateTaskRequests == {[json |-> TRUE, Title |-> t, Status |-> Nil] : t \in Titles \cup {Nil}}
                          \cup {BadJSON}

\* The Authorization headers clients can send: none, a malformed one, or the
\* session token a client got from its last login.
\* GET /tasks query strings
Parsed(n) == [ok |-> TRUE, n |-> n]
Unparsed == [ok |-> FALSE, n |-> 0]
UserIDParams == {[set |-> FALSE, val |-> BadHex], [set |-> TRUE, val |-> BadHex]}
                    \cup {[set |-> TRUE, val |-> Hex(u)] : u \in UserOids}
ListQueries ==
    {[json |-> TRUE, user_id |-> u, status |-> st, search |-> q, page |-> pg, limit |-> lm] :
        u \in UserIDParams, st \in {"", "TODO", "bogus"}, q \in {"", "task a", "("},
        pg \in {Unparsed, Parsed(2)}, lm \in {Unparsed, Parsed(1)}}

Headers == {NoHeader, MalformedHeader} \cup {Bearer(sessions[u]) : u \in DOMAIN sessions}

NoRequest == [json |-> TRUE]

----------------------------------------------------------------------------
(* The state after start-up: main seeds the roles; the first Admin account *)
(* exists in the users collection (no route creates an Admin without one). *)

\* What is kept of a response: the route answered, the status sent and the
\* error message of the body ("" when the body is not an error).
IsError(r) == "error" \in DOMAIN r.body
Observe(route, r) ==
    [route |-> route, status |-> r.status,
     error |-> IF IsError(r) THEN r.body.message ELSE ""]

NoResponse == [route |-> "", status |-> 0, error |-> ""]

BootstrapAdmin ==
    [ID |-> Oid("user", 1), FirstName |-> "New", Email |-> Email(1),
     Password |-> HashPassword("pw1"),
     RoleID |-> Oid("role", 1), IsEmailVerified |-> FALSE, NeedsPasswordChange |-> FALSE]

Unlocked == <<"free", 0>>
Idle == [pc |-> "idle"]

ResetIdle ==
    /\ passwordResetTokens = EmptyCollection
    /\ tokenMutex = Unlocked
    /\ calls = [c \in 1..MaxCalls |-> Idle]
    /\ sweeps = [i \in 1..MaxIssues |-> [pc |-> "none"]]
    /\ lookups = EmptyCollection
    /\ removed = {}

Init ==
    /\ now = 0
    /\ roles = SeedDefaultRoles(EmptyCollection)
    /\ users = [u \in {Oid("user", 1)} |-> BootstrapAdmin]
    /\ tasks = EmptyCollection
    /\ taskSeq = 0
    /\ sessions = EmptyCollection
    /\ resp = NoResponse
    /\ ResetIdle

----------------------------------------------------------------------------
(* One action per route; a request is served in one step. *)

Apply(route, o) ==
    /\ Cardinality(DOMAIN o.users) <= MaxUsers
    /\ o.taskSeq <= MaxTasks
    /\ users' = o.users
    /\ tasks' = o.tasks
    /\ taskSeq' = o.taskSeq
    /\ resp' = Observe(route, o.resp)
    /\ UNCHANGED <<now, roles, resetVars>>

Register ==
    \E req \in Credentials \cup {BadJSON} :
        /\ Apply("POST /auth/register", AuthHandler_RegisterUser(req))
        /\ UNCHANGED sessions

\* A successful login hands the client of that user its session token.
Login ==
    \E req \in LoginRequests \cup {BadJSON} :
        LET o == AuthHandler_LoginUser(req)
        IN  /\ Apply("POST /auth/login", o)
            /\ sessions' = IF "Token" \in DOMAIN o.resp.body
                           THEN LET u == ObjectIDFromHex(o.resp.body.UserID).oid
                                IN  [x \in DOMAIN sessions \cup {u} |->
                                        IF x = u THEN o.resp.body.Token ELSE sessions[x]]
                           ELSE sessions

\* A protected route: the middleware answers a request it rejects before the
\* handler reads the path or the body.
CreateAdminUser ==
    \E h \in Headers :
        /\ IF JWTAuth(h, RequiredPermission("POST /users/admin")).ok
           THEN \E id \in {BadHex}, req \in Credentials \cup {BadJSON}, rnd \in TempPasswords :
                    Apply("POST /users/admin", Serve("POST /users/admin", h, id, req, rnd))
           ELSE Apply("POST /users/admin", Serve("POST /users/admin", h, BadHex, NoRequest, ""))
        /\ UNCHANGED sessions

GetUserProfile ==
    \E h \in Headers :
        /\ IF JWTAuth(h, RequiredPermission("GET /users/{id}")).ok
           THEN \E id \in HexOf(UserOids), req \in {NoRequest}, rnd \in {""} :
                    Apply("GET /users/{id}", Serve("GET /users/{id}", h, id, req, rnd))
           ELSE Apply("GET /users/{id}", Serve("GET /users/{id}", h, BadHex, NoRequest, ""))
        /\ UNCHANGED sessions

UpdateUserRole ==
    \E h \in Headers :
        /\ IF JWTAuth(h, RequiredPermission("PUT /users/{id}/role")).ok
           THEN \E id \in HexOf(UserOids), req \in RoleRequests, rnd \in {""} :
                    Apply("PUT /users/{id}/role", Serve("PUT /users/{id}/role", h, id, req, rnd))
           ELSE Apply("PUT /users/{id}/role", Serve("PUT /users/{id}/role", h, BadHex, NoRequest, ""))
        /\ UNCHANGED sessions

UpdateUserProfile ==
    \E h \in Headers :
        /\ IF JWTAuth(h, RequiredPermission("PUT /users/{id}/profile")).ok
           THEN \E id \in HexOf(UserOids), req \in ProfileRequests, rnd \in {""} :
                    Apply("PUT /users/{id}/profile", Serve("PUT /users/{id}/profile", h, id, req, rnd))
           ELSE Apply("PUT /users/{id}/profile", Serve("PUT /users/{id}/profile", h, BadHex, NoRequest, ""))
        /\ UNCHANGED sessions

CreateTask ==
    \E h \in Headers :
        /\ IF JWTAuth(h, RequiredPermission("POST /tasks")).ok
           THEN \E id \in {BadHex}, req \in CreateTaskRequests, rnd \in {""} :
                    Apply("POST /tasks", Serve("POST /tasks", h, id, req, rnd))
           ELSE Apply("POST /tasks", Serve("POST /tasks", h, BadHex, NoRequest, ""))
        /\ UNCHANGED sessions

GetTaskByID ==
    \E h \in Headers :
        /\ IF JWTAuth(h, RequiredPermission("GET /tasks/{id}")).ok
           THEN \E id \in HexOf(TaskOids), req \in {NoRequest}, rnd \in {""} :
                    Apply("GET /tasks/{id}", Serve("GET /tasks/{id}", h, id, req, rnd))
           ELSE Apply("GET /tasks/{id}", Serve("GET /tasks/{id}", h, BadHex, NoRequest, ""))
        /\ UNCHANGED sessions

UpdateTask ==
    \E h \in Headers :
        /\ IF JWTAuth(h, RequiredPermission("PUT /tasks/{id}")).ok
           THEN \E id \in HexOf(TaskOids), req \in UpdateTaskRequests, rnd \in {""} :
                    Apply("PUT /tasks/{id}", Serve("PUT /tasks/{id}", h, id, req, rnd))
           ELSE Apply("PUT /tasks/{id}", Serve("PUT /tasks/{id}", h, BadHex, NoRequest, ""))
        /\ UNCHANGED sessions

DeleteTask ==
    \E h \in Headers :
        /\ IF JWTAuth(h, RequiredPermission("DELETE /tasks/{id}")).ok
           THEN \E id \in HexOf(TaskOids), req \in {NoRequest}, rnd \in {""} :
                    Apply("DELETE /tasks/{id}", Serve("DELETE /tasks/{id}", h, id, req, rnd))
           ELSE Apply("DELETE /tasks/{id}", Serve("DELETE /tasks/{id}", h, BadHex, NoRequest, ""))
        /\ UNCHANGED sessions

GetTasks ==
    \E h \in Headers :
        /\ IF JWTAuth(h, RequiredPermission("GET /tasks")).ok
           THEN \E id \in {BadHex}, req \in ListQueries, rnd \in {""} :
                    Apply("GET /tasks", Serve("GET /tasks", h, id, req, rnd))
           ELSE Apply("GET /tasks", Serve("GET /tasks", h, BadHex, NoRequest, ""))
        /\ UNCHANGED sessions

\* Spec: the account and user routes.
Next ==
    \/ Register
    \/ Login
    \/ CreateAdminUser
    \/ GetUserProfile
    \/ UpdateUserRole
    \/ UpdateUserProfile

Spec == Init /\ [][Next]_vars

\* SpecTasks: the task routes, with the routes that give their callers a role.
NextTasks ==
    \/ Register
    \/ Login
    \/ UpdateUserRole
    \/ CreateTask
    \/ GetTaskByID
    \/ UpdateTask
    \/ DeleteTask

SpecTasks == Init /\ [][NextTasks]_vars

\* SpecList: the task listing, with the routes that give its callers a role
\* and the tasks an owner.
NextList ==
    \/ Register
    \/ Login
    \/ UpdateUserRole
    \/ CreateTask
    \/ DeleteTask
    \/ GetTasks

SpecList == Init /\ [][NextList]_vars

----------------------------------------------------------------------------
(* services/auth_service.go: ForgotPassword, ResetPassword and the sweep   *)
(* goroutine, one step per statement that touches tokenMutex or the map.   *)
(*                                                                         *)
(*   ForgotPassword:  start (186-196) -> fp_lock (199) -> fp_store         *)
(*                    (200-201, then go func at 214 and return 222)        *)
(*   ResetPassword:   start -> rp_lock1 (227) -> rp_lookup (228-233)       *)
(*                    -> rp_lock2 (236) -> rp_delete (237-238)             *)
(*                    -> rp_update (240-250)                               *)
(*   sweep goroutine: sleep (215) -> lock (216) -> delete (217-218)        *)

\* A token nobody was issued: signed with another key.
ForgedToken ==
    [alg |-> "HS256", key |-> "guess",
     claims |-> [user_id |-> Hex(Oid("user", 1)), exp |-> Hour, iss |-> "taskflow-api-reset"]]

\* The tokens a caller can present: those issued so far, or a forged one.
KnownTokens == DOMAIN lookups \cup {ForgedToken}

MapPut(m, k, v) == [x \in DOMAIN m \cup {k} |-> IF x = k THEN v ELSE m[x]]
\* delete(passwordResetTokens, token): a no-op when the key is absent
MapDelete(m, k) == [x \in DOMAIN m \ {k} |-> m[x]]

\* The sweep goroutines started so far, and the calls about to start one.
Spawned == Cardinality({i \in DOMAIN sweeps : sweeps[i].pc # "none"})
Issuing == Cardinality({c \in DOMAIN calls : calls[c].pc \in {"fp_lock", "fp_store"}})

\* A faulty variant of the lock below: it is taken without waiting.
LockWithoutWaiting(g) ==
    /\ tokenMutex' = g

\* tokenMutex.Lock() returns once the mutex is free and is then held by g
Lock(g) ==
    /\ tokenMutex = Unlocked
    /\ tokenMutex' = g

Caller(c) == <<"call", c>>
Sweeper(i) == <<"sweep", i>>

\* Requests are served one at a time when seq holds.
MayStart(c, seq) ==
    /\ calls[c].pc = "idle"
    /\ seq => \A d \in 1..MaxCalls : calls[d].pc = "idle"

Done(op, token, result) == [pc |-> "done", op |-> op, token |-> token, result |-> result]

ForgotPasswordStart(c, seq) ==
    /\ MayStart(c, seq)
    /\ \E email \in Emails \cup {UnknownEmail} :
          LET user == GetUserByEmail(email)
          IN  IF user.err # ""
              THEN calls' = [calls EXCEPT ![c] = Done("ForgotPassword", ForgedToken, "")]
              ELSE /\ Spawned + Issuing < MaxIssues
                   /\ calls' = [calls EXCEPT ![c] =
                          [pc |-> "fp_lock", op |-> "ForgotPassword", userID |-> user.val.ID,
                           token |-> GeneratePasswordResetToken(user.val.ID, passwordResetSecret)]]
    /\ UNCHANGED <<now, roles, apiVars, passwordResetTokens, tokenMutex, sweeps, lookups, removed>>

ForgotPasswordLock(c) ==
    /\ calls[c].pc = "fp_lock"
    /\ Lock(Caller(c))
    /\ calls' = [calls EXCEPT ![c].pc = "fp_store"]
    /\ UNCHANGED <<now, roles, apiVars, passwordResetTokens, sweeps, lookups, removed>>

ForgotPasswordStore(c) ==
    /\ calls[c].pc = "fp_store"
    /\ passwordResetTokens' = MapPut(passwordResetTokens, calls[c].token, calls[c].userID)
    /\ tokenMutex' = Unlocked
    /\ sweeps' = [sweeps EXCEPT ![Spawned + 1] =
                      [pc |-> "sleep", token |-> calls[c].token, wake |-> now + Hour]]
    /\ calls' = [calls EXCEPT ![c] = Done("ForgotPassword", calls[c].token, "")]
    /\ lookups' = IF calls[c].token \in DOMAIN passwordResetTokens
                  THEN lookups
                  ELSE MapPut(lookups, calls[c].token, 0)
    /\ removed' = removed \ {calls[c].token}
    /\ UNCHANGED <<now, roles, apiVars>>

ResetPasswordStart(c, seq) ==
    /\ MayStart(c, seq)
    /\ \E token \in KnownTokens, newPassword \in NewPasswords :
          calls' = [calls EXCEPT ![c] =
              [pc |-> "rp_lock1", op |-> "ResetPassword", token |-> token,
               newPassword |-> newPassword]]
    /\ UNCHANGED <<now, roles, apiVars, passwordResetTokens, tokenMutex, sweeps, lookups, removed>>

ResetPasswordLock1(c) ==
    /\ calls[c].pc = "rp_lock1"
    /\ Lock(Caller(c))
    /\ calls' = [calls EXCEPT ![c].pc = "rp_lookup"]
    /\ UNCHANGED <<now, roles, apiVars, passwordResetTokens, sweeps, lookups, removed>>

\* userID, exists := passwordResetTokens[tokenString]; Unlock; if !exists return
ResetPasswordLookup(c) ==
    /\ calls[c].pc = "rp_lookup"
    /\ tokenMutex' = Unlocked
    /\ LET token == calls[c].token
           exists == token \in DOMAIN passwordResetTokens
       IN  /\ calls' = [calls EXCEPT ![c] =
                  IF exists
                  THEN [pc |-> "rp_lock2", op |-> "ResetPassword", token |-> token,
                        newPassword |-> calls[c].newPassword,
                        userID |-> passwordResetTokens[token], at |-> now]
                  ELSE Done("ResetPassword", token, "invalid or expired password reset token")]
           /\ lookups' = IF exists THEN [lookups EXCEPT ![token] = @ + 1] ELSE lookups
    /\ UNCHANGED <<now, roles, apiVars, passwordResetTokens, sweeps, removed>>

ResetPasswordLock2(c) ==
    /\ calls[c].pc = "rp_lock2"
    /\ Lock(Caller(c))
    /\ calls' = [calls EXCEPT ![c].pc = "rp_delete"]
    /\ UNCHANGED <<now, roles, apiVars, passwordResetTokens, sweeps, lookups, removed>>

ResetPasswordDelete(c) ==
    /\ calls[c].pc = "rp_delete"
    /\ passwordResetTokens' = MapDelete(passwordResetTokens, calls[c].token)
    /\ tokenMutex' = Unlocked
    /\ calls' = [calls EXCEPT ![c].pc = "rp_update"]
    /\ UNCHANGED <<now, roles, apiVars, sweeps, lookups, removed>>

\* HashPassword, then UpdateUserPassword with the user id read from the map
ResetPasswordUpdate(c) ==
    /\ calls[c].pc = "rp_update"
    /\ LET r == UpdateUserPassword(calls[c].userID, HashPassword(calls[c].newPassword))
       IN  /\ users' = r.users
           /\ calls' = [calls EXCEPT ![c] =
                  [pc |-> "done", op |-> "ResetPassword", token |-> calls[c].token,
                   newPassword |-> calls[c].newPassword, userID |-> calls[c].userID,
                   at |-> calls[c].at,
                   result |-> IF r.err # "" THEN "failed to update password in database" ELSE ""]]
    /\ UNCHANGED <<now, roles, tasks, taskSeq, sessions, resp,
                   passwordResetTokens, tokenMutex, sweeps, lookups, removed>>

\* The call has returned to its caller.
Return(c) ==
    /\ calls[c].pc = "done"
    /\ calls' = [calls EXCEPT ![c] = Idle]
    /\ UNCHANGED <<now, roles, apiVars, passwordResetTokens, tokenMutex, sweeps, lookups, removed>>

\* A faulty variant of the step below: a redeemed token's sweep is not woken.
SweepWakeUnlessRedeemed(i) ==
    /\ sweeps[i].pc = "sleep"
    /\ now >= sweeps[i].wake
    /\ sweeps[i].token \in DOMAIN passwordResetTokens
    /\ sweeps' = [sweeps EXCEPT ![i].pc = "lock"]
    /\ UNCHANGED <<now, roles, apiVars, passwordResetTokens, tokenMutex, calls, lookups, removed>>

\* time.Sleep(1 * time.Hour) returns no earlier than an hour after it began.
SweepWake(i) ==
    /\ sweeps[i].pc = "sleep"
    /\ now >= sweeps[i].wake
    /\ sweeps' = [sweeps EXCEPT ![i].pc = "lock"]
    /\ UNCHANGED <<now, roles, apiVars, passwordResetTokens, tokenMutex, calls, lookups, removed>>

SweepLock(i) ==
    /\ sweeps[i].pc = "lock"
    /\ Lock(Sweeper(i))
    /\ sweeps' = [sweeps EXCEPT ![i].pc = "delete"]
    /\ UNCHANGED <<now, roles, apiVars, passwordResetTokens, calls, lookups, removed>>

SweepDelete(i) ==
    /\ sweeps[i].pc = "delete"
    /\ passwordResetTokens' = MapDelete(passwordResetTokens, sweeps[i].token)
    /\ tokenMutex' = Unlocked
    /\ sweeps' = [sweeps EXCEPT ![i].pc = "exit"]
    /\ removed' = IF sweeps[i].token \in DOMAIN passwordResetTokens
                  THEN removed \cup {sweeps[i].token} ELSE removed
    /\ UNCHANGED <<now, roles, apiVars, calls, lookups>>

Tick ==
    /\ now < MaxClock
    /\ now' = now + 1
    /\ UNCHANGED <<roles, apiVars, resetVars>>

\* A registered user beside the first Admin.
RegisteredUser ==
    [ID |-> Oid("user", 2), FirstName |-> "New", Email |-> Email(2),
     Password |-> HashPassword("pw1"),
     RoleID |-> Oid("role", 3), IsEmailVerified |-> FALSE, NeedsPasswordChange |-> FALSE]

InitReset ==
    /\ now = 0
    /\ roles = SeedDefaultRoles(EmptyCollection)
    /\ users = [u \in {Oid("user", 1), Oid("user", 2)} |->
                   IF u = Oid("user", 1) THEN BootstrapAdmin ELSE RegisteredUser]
    /\ tasks = EmptyCollection
    /\ taskSeq = 0
    /\ sessions = EmptyCollection
    /\ resp = NoResponse
    /\ ResetIdle

Goroutines(seq) ==
    \/ \E c \in 1..MaxCalls : ForgotPasswordStart(c, seq)
    \/ \E c \in 1..MaxCalls : ForgotPasswordLock(c)
    \/ \E c \in 1..MaxCalls : ForgotPasswordStore(c)
    \/ \E c \in 1..MaxCalls : ResetPasswordStart(c, seq)
    \/ \E c \in 1..MaxCalls : ResetPasswordLock1(c)
    \/ \E c \in 1..MaxCalls : ResetPasswordLookup(c)
    \/ \E c \in 1..MaxCalls : ResetPasswordLock2(c)
    \/ \E c \in 1..MaxCalls : ResetPasswordDelete(c)
    \/ \E c \in 1..MaxCalls : ResetPasswordUpdate(c)
    \/ \E c \in 1..MaxCalls : Return(c)
    \/ \E i \in 1..MaxIssues : SweepWake(i)
    \/ \E i \in 1..MaxIssues : SweepLock(i)
    \/ \E i \in 1..MaxIssues : SweepDelete(i)
    \/ Tick

\* SpecReset: the calls run concurrently.
NextReset == Goroutines(FALSE)
SpecReset == InitReset /\ [][NextReset]_vars

\* SpecSeq: the calls are served one after the other (the sweeps still run beside them).
NextSeq == Goroutines(TRUE)
SpecSeq == InitReset /\ [][NextSeq]_vars

\* Time does not stop while a goroutine sleeps: past the modelled span the
\* clock runs on until the last sleeper's hour is over.
LateTick ==
    /\ now >= MaxClock
    /\ \E i \in DOMAIN sweeps : sweeps[i].pc = "sleep" /\ sweeps[i].wake > now
    /\ now' = now + 1
    /\ UNCHANGED <<roles, apiVars, resetVars>>

\* SpecSweep: SpecSeq over the whole life of its sweep goroutines.  The Go
\* scheduler runs every runnable goroutine (weak fairness of the steps that
\* wait for nothing), sync.Mutex hands the lock to a waiter that keeps
\* waiting (strong fairness of the sweep's Lock), and the clock advances.
NextSweep ==
    \/ NextSeq
    \/ LateTick

Scheduling ==
    /\ WF_vars(Tick \/ LateTick)
    /\ \A c \in 1..MaxCalls :
           /\ WF_vars(ForgotPasswordStore(c))
           /\ WF_vars(ResetPasswordLookup(c))
           /\ WF_vars(ResetPasswordDelete(c))
    /\ \A i \in 1..MaxIssues :
           /\ WF_vars(SweepWake(i))
           /\ SF_vars(SweepLock(i))
           /\ WF_vars(SweepDelete(i))

SpecSweep == InitReset /\ [][NextSweep]_vars /\ Scheduling

----------------------------------------------------------------------------
(* SpecGate: the middleware in front of a permission-gated route and of an *)
(* authentication-only route, with everything that changes what it reads:  *)
(* logins, the clock (session tokens expire after 24h), tokens that are    *)
(* not session tokens, and edits of the roles and users collections made   *)
(* directly in the database.                                               *)

HalfDay == 12 * Hour

\* Tokens a client can present that no login issued: one signed with a key
\* that is not the server's, one with a non-HMAC algorithm, the verification
\* token RegisterUser mails (auth_service.go:112) and a password-reset token.
WrongKeyToken == GenerateToken(Oid("user", 1), Email(1), Oid("role", 1), "guessed")
UnsignedToken == [alg |-> "none", key |-> "", claims |-> WrongKeyToken.claims]
VerificationToken == GenerateVerificationToken(Hex(Oid("user", 2)), jwtSecret)
ResetToken == GeneratePasswordResetToken(Oid("user", 2), passwordResetSecret)
ForeignTokens == {WrongKeyToken, UnsignedToken, VerificationToken, ResetToken}

GateHeaders == Headers \cup {Bearer(t) : t \in ForeignTokens}

\* The `token` query parameter of POST /auth/verify_email
\* -- absent, a string that is no token, or the token mailed to user 2.
VerifyTokens == {"", "any", "mailed"}

VerifyEmail ==
    \E h \in GateHeaders :
        /\ IF JWTAuth(h, RequiredPermission("POST /auth/verify_email")).ok
           THEN \E tokenString \in VerifyTokens :
                    Apply("POST /auth/verify_email",
                          Serve("POST /auth/verify_email", h, tokenString, NoRequest, ""))
           ELSE Apply("POST /auth/verify_email",
                      Serve("POST /auth/verify_email", h, "", NoRequest, ""))
        /\ UNCHANGED sessions

\* The profile the update requests of SpecGate name.
GateTargets == {Hex(Oid("user", 2))}

UpdateUserProfileAnyToken ==
    \E h \in GateHeaders :
        /\ IF JWTAuth(h, RequiredPermission("PUT /users/{id}/profile")).ok
           THEN \E id \in GateTargets, req \in ProfileRequests :
                    Apply("PUT /users/{id}/profile", Serve("PUT /users/{id}/profile", h, id, req, ""))
           ELSE Apply("PUT /users/{id}/profile",
                      Serve("PUT /users/{id}/profile", h, BadHex, NoRequest, ""))
        /\ UNCHANGED sessions

\* Edits made directly in the database.  At most MaxEdits documents differ
\* from what start-up and the API left there.
GateUsers == {Oid("user", 1), Oid("user", 2)}
SeededRoles == SeedDefaultRoles(EmptyCollection)
EditablePermissions == {"user:update_profile"}

Edited(rs, us) ==
    Cardinality({r \in DOMAIN SeededRoles : r \notin DOMAIN rs \/ rs[r] # SeededRoles[r]})
        + Cardinality(GateUsers \ DOMAIN us)

Without(seq, name) == SelectSeq(seq, LAMBDA q : q # Perm(name))

\* A permission added to a role document, or taken from it.
EditRolePermissions ==
    \E r \in DOMAIN roles, name \in EditablePermissions :
        /\ roles' = [roles EXCEPT ![r].Permissions =
                        IF \E i \in DOMAIN @ : @[i] = Perm(name)
                        THEN Without(@, name) ELSE Append(@, Perm(name))]
        /\ Edited(roles', users) <= MaxEdits
        /\ UNCHANGED <<now, apiVars, resetVars>>

DeleteRole ==
    \E r \in DOMAIN roles :
        /\ roles' = [x \in DOMAIN roles \ {r} |-> roles[x]]
        /\ Edited(roles', users) <= MaxEdits
        /\ UNCHANGED <<now, apiVars, resetVars>>

DeleteUser ==
    \E u \in DOMAIN users :
        /\ users' = [x \in DOMAIN users \ {u} |-> users[x]]
        /\ Edited(roles, users') <= MaxEdits
        /\ UNCHANGED <<now, roles, tasks, taskSeq, sessions, resp, resetVars>>

\* Half a day passes.
Advance ==
    /\ now < MaxHalfDays * HalfDay
    /\ now' = now + HalfDay
    /\ UNCHANGED <<roles, apiVars, resetVars>>

NextGate ==
    \/ Login
    \/ VerifyEmail
    \/ UpdateUserProfileAnyToken
    \/ EditRolePermissions
    \/ DeleteRole
    \/ DeleteUser
    \/ Advance

SpecGate == InitReset /\ [][NextGate]_vars

----------------------------------------------------------------------------
(* SpecAccount: the life of an account's password and of its               *)
(* needs_password_change flag -- registration, admin creation, login, the  *)
(* change of a temporary password, and password reset.  A ForgotPassword   *)
(* or ResetPassword request is served in one step here (no other call runs *)
(* between its steps), within the hour before any sweep wakes.             *)

\* A faulty variant of the call below: the failed lookup is reported.
ForgotPasswordReportsUnknown(email) ==
    LET user == GetUserByEmail(email)
    IN  IF user.err # ""
        THEN [err |-> user.err, passwordResetTokens |-> passwordResetTokens, spawned |-> {}]
        ELSE LET resetToken == GeneratePasswordResetToken(user.val.ID, passwordResetSecret)
             IN  [err |-> "",
                  passwordResetTokens |-> MapPut(passwordResetTokens, resetToken, user.val.ID),
                  spawned |-> {resetToken}]

\* AuthService.ForgotPassword: the error returned, the registry afterwards and
\* the tokens a sweep goroutine was started for.
ForgotPassword(email) ==
    LET user == GetUserByEmail(email)
    IN  IF user.err # ""
        THEN [err |-> "", passwordResetTokens |-> passwordResetTokens, spawned |-> {}]
        ELSE LET resetToken == GeneratePasswordResetToken(user.val.ID, passwordResetSecret)
             IN  [err |-> "",
                  passwordResetTokens |-> MapPut(passwordResetTokens, resetToken, user.val.ID),
                  spawned |-> {resetToken}]

\* AuthHandler.ForgotPassword
AuthHandler_ForgotPassword(req) ==
    LET unchanged(r) == [resp |-> r, passwordResetTokens |-> passwordResetTokens, spawned |-> {}]
    IN  IF ~req.json THEN unchanged(RespondWithError(StatusBadRequest, "Invalid request payload"))
        ELSE IF req.Email = "" THEN unchanged(RespondWithError(StatusBadRequest, "validation failed"))
        ELSE LET r == ForgotPassword(req.Email)
             IN  IF r.err # ""
                 THEN unchanged(RespondWithError(StatusInternalServerError,
                                                 "Failed to initiate password reset"))
                 ELSE [resp |-> RespondWithJSON(StatusOK, Message(
                          "If an account with that email exists, a password reset link has been sent.")),
                       passwordResetTokens |-> r.passwordResetTokens, spawned |-> r.spawned]

\* AuthService.ResetPassword: lookup, delete, HashPassword, UpdateUserPassword
ResetPassword(tokenString, newPassword) ==
    IF tokenString \notin DOMAIN passwordResetTokens
    THEN [err |-> "invalid or expired password reset token", found |-> FALSE,
          users |-> users, passwordResetTokens |-> passwordResetTokens]
    ELSE LET r == UpdateUserPassword(passwordResetTokens[tokenString], HashPassword(newPassword))
         IN  [err |-> IF r.err # "" THEN "failed to update password in database" ELSE "",
              found |-> TRUE, users |-> r.users,
              passwordResetTokens |-> MapDelete(passwordResetTokens, tokenString)]

\* AuthHandler.ResetPassword
AuthHandler_ResetPassword(req) ==
    LET unchanged(r) == [resp |-> r, found |-> FALSE, users |-> users,
                         passwordResetTokens |-> passwordResetTokens]
    IN  IF ~req.json THEN unchanged(RespondWithError(StatusBadRequest, "Invalid request payload"))
        ELSE IF req.NewPassword \in ShortPasswords \cup {""}
        THEN unchanged(RespondWithError(StatusBadRequest, "validation failed"))
        ELSE LET r == ResetPassword(req.Token, req.NewPassword)
             IN  [resp |-> IF r.err # "" THEN RespondWithError(StatusBadRequest, r.err)
                           ELSE RespondWithJSON(StatusOK,
                                    Message("Password has been reset successfully.")),
                  found |-> r.found, users |-> r.users,
                  passwordResetTokens |-> r.passwordResetTokens]

ForgotRequests == {[json |-> TRUE, Email |-> e] : e \in Emails \cup {UnknownEmail}}
                      \cup {BadJSON}
ResetRequests == {[json |-> TRUE, Token |-> t, NewPassword |-> p] :
                     t \in KnownTokens, p \in NewPasswords \cup ShortPasswords} \cup {BadJSON}
ChangeRequests == {[json |-> TRUE, OldPassword |-> o, NewPassword |-> n] :
                      o \in TempPasswords \cup NewPasswords \cup {WrongPassword},
                      n \in NewPasswords \cup ShortPasswords} \cup {BadJSON}

ForgotPasswordRequest ==
    \E req \in ForgotRequests :
        LET o == AuthHandler_ForgotPassword(req)
        IN  /\ Spawned + Cardinality(o.spawned) <= MaxIssues
            /\ passwordResetTokens' = o.passwordResetTokens
            /\ sweeps' = IF o.spawned = {} THEN sweeps
                         ELSE [sweeps EXCEPT ![Spawned + 1] =
                                  [pc |-> "sleep", token |-> CHOOSE t \in o.spawned : TRUE,
                                   wake |-> now + Hour]]
            /\ lookups' = [t \in DOMAIN lookups \cup o.spawned |->
                              IF t \in o.spawned \ DOMAIN passwordResetTokens THEN 0
                              ELSE lookups[t]]
            /\ removed' = removed \ o.spawned
            /\ resp' = Observe("POST /auth/forgot_password", o.resp)
            /\ UNCHANGED <<now, roles, users, tasks, taskSeq, sessions, tokenMutex, calls>>

ResetPasswordRequest ==
    \E req \in ResetRequests :
        LET o == AuthHandler_ResetPassword(req)
        IN  /\ users' = o.users
            /\ passwordResetTokens' = o.passwordResetTokens
            /\ lookups' = IF o.found THEN [lookups EXCEPT ![req.Token] = @ + 1] ELSE lookups
            /\ resp' = Observe("POST /auth/reset_password", o.resp)
            /\ UNCHANGED <<now, roles, tasks, taskSeq, sessions, tokenMutex, calls,
                           sweeps, removed>>

ChangeTempPassword ==
    \E h \in Headers :
        /\ IF JWTAuth(h, RequiredPermission("POST /auth/change_temp_password")).ok
           THEN \E req \in ChangeRequests :
                    Apply("POST /auth/change_temp_password",
                          Serve("POST /auth/change_temp_password", h, "", req, ""))
           ELSE Apply("POST /auth/change_temp_password",
                      Serve("POST /auth/change_temp_password", h, "", NoRequest, ""))
        /\ UNCHANGED sessions

NextAccount ==
    \/ Register
    \/ Login
    \/ CreateAdminUser
    \/ ChangeTempPassword
    \/ VerifyEmail
    \/ ForgotPasswordRequest
    \/ ResetPasswordRequest

SpecAccount == Init /\ [][NextAccount]_vars

----------------------------------------------------------------------------
(* SpecRedeem: password reset requests served in one step, against a users *)
(* collection from which a document can be removed in the database, so     *)
(* that the update at the end of ResetPassword can fail.                   *)

NextRedeem ==
    \/ Login
    \/ ForgotPasswordRequest
    \/ ResetPasswordRequest
    \/ DeleteUser

SpecRedeem == InitReset /\ [][NextRedeem]_vars

----------------------------------------------------------------------------
(* Properties of the user routes (Spec) and of the task routes (SpecTasks). *)
(* Each is stated over every request a client holding a session token can  *)
(* send in the current state.                                              *)

\* The clients whose token the middleware accepts, and the context it builds.
Callers == {h \in Headers : JWTAuth(h, "").ok}
Ctx(h) == JWTAuth(h, "").ctx
StoredRoleName(u) == GetRoleByID(Hex(users[u].RoleID)).val.Name
WellFormed(reqs) == {req \in reqs : req.json}
Existing(ids, coll) == {t \in ids : ObjectIDFromHex(t).ok /\ ObjectIDFromHex(t).oid \in DOMAIN coll}

\* C4: an UpdateUserRole request whose actor has the context role Admin, whose
\* target is the actor and whose role name is not "Admin" is denied, and the
\* actor's stored role_id is unchanged.
C4_SelfDemotionRejected ==
    \A h \in Callers, req \in RoleRequests :
        (Ctx(h).RoleName = "Admin" /\ Ctx(h).UserID \in DOMAIN users
            /\ req.json /\ req.RoleName # "Admin")
        => LET o == Serve("PUT /users/{id}/role", h, Hex(Ctx(h).UserID), req, "")
           IN  /\ IsError(o.resp)
               /\ o.users[Ctx(h).UserID].RoleID = users[Ctx(h).UserID].RoleID

\* C5: an UpdateUserRole request whose actor is an Admin (holding
\* user:update_role) and whose target is a different user with the stored role
\* Admin is denied for every role name, and the target's role_id is unchanged.
C5_PeerAdminImmutable ==
    \A h \in Callers, target \in Existing(HexOf(UserOids), users), req \in RoleRequests :
        LET ac == Ctx(h)
            x == ObjectIDFromHex(target).oid
        IN  (ac.RoleName = "Admin" /\ x # ac.UserID /\ StoredRoleName(x) = "Admin")
            => LET o == Serve("PUT /users/{id}/role", h, target, req, "")
               IN  /\ HasPermission(ac, "user:update_role")
                   /\ IsError(o.resp)
                   /\ o.users[x].RoleID = users[x].RoleID

\* An Admin has just been refused the change of another Admin's role.
C5_Witness ==
    /\ resp.route = "PUT /users/{id}/role"
    /\ resp.error = "You cannot change the role of another Admin."
    /\ Cardinality({u \in DOMAIN users : StoredRoleName(u) = "Admin"}) = 2

\* C8: an UpdateUserProfile request of an actor with the role User for the id
\* of a different user is denied, and that user's profile is unchanged.
C8_UserCannotUpdateOthersProfile ==
    \A h \in Callers, target \in Existing(HexOf(UserOids), users), req \in ProfileRequests :
        LET ac == Ctx(h)
            x == ObjectIDFromHex(target).oid
        IN  (ac.RoleName = "User" /\ x # ac.UserID)
            => LET o == Serve("PUT /users/{id}/profile", h, target, req, "")
               IN  /\ IsError(o.resp)
                   /\ o.users[x] = users[x]

\* C9: every authenticated user can read their own profile with
\* GET /users/{id}, and an actor holding user:read_all can read every profile.
C9_ProfileReadable ==
    \A h \in Callers, target \in Existing(HexOf(UserOids), users) :
        LET ac == Ctx(h)
            x == ObjectIDFromHex(target).oid
        IN  (x = ac.UserID \/ HasPermission(ac, "user:read_all"))
            => ~IsError(Serve("GET /users/{id}", h, target, NoRequest, "").resp)

\* The permission table of the specification.
CanonicalPermissions(name) ==
    CASE name = "Admin" ->
            {"task:create", "task:read_all", "task:update_all", "task:delete_all",
             "user:read_all", "user:update_role", "user:update_profile",
             "user:verify_email", "user:create_admin", "dashboard:read_metrics"}
      [] name = "Manager" ->
            {"task:create", "task:read_all", "task:update_all", "task:delete_all",
             "user:update_profile"}
      [] name = "User" ->
            {"task:create", "task:read_own", "task:update_own", "task:delete_own",
             "user:update_profile"}
      [] OTHER -> {}

\* Every action a route or a handler asks about, and every action of the table.
Actions ==
    UNION {CanonicalPermissions(n) : n \in RoleNames} \cup {"user:read_own", "task:read_own", ""}

ActionsOf(role) == {role.Permissions[i].Action : i \in DOMAIN role.Permissions}

\* C10: the seeded roles are Admin, Manager and User with exactly the canonical
\* permissions, the context of a user with one of them answers HasPermission
\* by that table, and any other role name resolves to no role and so to no
\* permission at all.
C10_PermissionTable ==
    /\ {roles[r].Name : r \in DOMAIN roles} = {"Admin", "Manager", "User"}
    /\ \A name \in RoleNames \cup {""} :
          LET role == GetRoleByName(name)
          IN  IF name \in {"Admin", "Manager", "User"}
              THEN /\ role.err = ""
                   /\ ActionsOf(role.val) = CanonicalPermissions(name)
              ELSE /\ role.err # ""
                   /\ CanonicalPermissions(name) = {}
    /\ \A u \in DOMAIN users, r \in DOMAIN roles \cup {Oid("role", 0)} :
          LET ac == AuthenticatedUserContext(u, r)
          IN  IF r \in DOMAIN roles
              THEN /\ ac.err = ""
                   /\ \A a \in Actions :
                         HasPermission(ac.val, a) <=> a \in CanonicalPermissions(roles[r].Name)
              ELSE ac.err # ""
    /\ \A h \in Callers, a \in Actions :
          HasPermission(Ctx(h), a) <=> a \in CanonicalPermissions(Ctx(h).RoleName)

\* The middleware has just refused a User for a permission its role lacks.
C10_Witness ==
    /\ resp.error = "You do not have sufficient permissions to access this resource"
    /\ \E h \in Callers : Ctx(h).RoleName = "User" /\ ~HasPermission(Ctx(h), "user:update_role")

\* C6: an actor with the role User reads, updates and deletes by id a task it
\* owns, and is denied each of the three on a task of another owner, the task
\* unchanged.
C6_UserOwnTasksOnly ==
    \A h \in Callers, target \in Existing(HexOf(TaskOids), tasks) :
        LET ac == Ctx(h)
            t == ObjectIDFromHex(target).oid
            read == Serve("GET /tasks/{id}", h, target, NoRequest, "")
            delete == Serve("DELETE /tasks/{id}", h, target, NoRequest, "")
        IN  ac.RoleName = "User"
            => IF tasks[t].UserID = ac.UserID
               THEN /\ ~IsError(read.resp) /\ read.resp.body = tasks[t] /\ read.tasks = tasks
                    /\ \A req \in WellFormed(UpdateTaskRequests) :
                          LET update == Serve("PUT /tasks/{id}", h, target, req, "")
                          IN  /\ ~IsError(update.resp)
                              /\ t \in DOMAIN update.tasks
                              /\ update.tasks[t].UserID = ac.UserID
                              /\ req.Title # Nil => update.tasks[t].Title = req.Title
                    /\ ~IsError(delete.resp) /\ t \notin DOMAIN delete.tasks
               ELSE /\ IsError(read.resp) /\ read.tasks = tasks
                    /\ \A req \in UpdateTaskRequests :
                          LET update == Serve("PUT /tasks/{id}", h, target, req, "")
                          IN  IsError(update.resp) /\ update.tasks = tasks
                    /\ IsError(delete.resp) /\ delete.tasks = tasks

\* A User has just been refused the update of a task of another owner, which exists.
C6_Witness ==
    /\ resp.route = "PUT /tasks/{id}"
    /\ resp.error = "You do not have permission to update this task"
    /\ \E h \in Callers, t \in DOMAIN tasks :
          /\ Ctx(h).RoleName = "User"
          /\ tasks[t].UserID # Ctx(h).UserID
          /\ ~UpdateTaskDenied(Ctx(h), [tasks[t] EXCEPT !.UserID = Ctx(h).UserID])

\* C7: an actor holding task:read_all, task:update_all and task:delete_all
\* (Manager, Admin) reads, updates and deletes every task through the API,
\* whoever owns it.
C7_AllScopeReachesAnyTask ==
    \A h \in Callers, target \in Existing(HexOf(TaskOids), tasks) :
        LET ac == Ctx(h)
            t == ObjectIDFromHex(target).oid
            read == Serve("GET /tasks/{id}", h, target, NoRequest, "")
            delete == Serve("DELETE /tasks/{id}", h, target, NoRequest, "")
        IN  /\ HasPermission(ac, "task:read_all") => ~IsError(read.resp)
            /\ HasPermission(ac, "task:update_all") =>
                  \A req \in WellFormed(UpdateTaskRequests) :
                      ~IsError(Serve("PUT /tasks/{id}", h, target, req, "").resp)
            /\ HasPermission(ac, "task:delete_all") =>
                  ~IsError(delete.resp) /\ t \notin DOMAIN delete.tasks

----------------------------------------------------------------------------
(* Properties of the reset-token registry (SpecReset, SpecSeq). *)

\* The user a reset token was issued for.
TokenUser(token) == ObjectIDFromHex(token.claims.user_id).oid
ResetCalls == {c \in DOMAIN calls : calls[c].pc # "idle" /\ calls[c].op = "ResetPassword"}
\* The calls whose lookup found their token in the map.
Found(c) == "userID" \in DOMAIN calls[c]

\* C1: of the ResetPassword calls that present one registered token, whatever
\* their interleaving, at most one finds it in the map.
C1_AtMostOneCallFindsToken ==
    \A token \in DOMAIN lookups : lookups[token] <= 1

\* C3: no ResetPassword call finds a token in the map at a time later than
\* the token's expiry, one hour after it was issued.
C3_NeverRedeemedAfterExpiry ==
    \A c \in ResetCalls : Found(c) => calls[c].at <= calls[c].token.claims.exp

\* A ResetPassword call that has finished: it succeeded if and only if it
\* found the token; then the token's user has the new password and the token
\* is gone; otherwise the token was never issued, was redeemed before, or
\* was removed by its sweep.
ResetPasswordOutcome ==
    \A c \in ResetCalls :
        calls[c].pc = "done" =>
            LET token == calls[c].token
            IN  IF Found(c)
                THEN /\ calls[c].result = ""
                     /\ calls[c].userID = TokenUser(token)
                     /\ users[TokenUser(token)].Password = HashPassword(calls[c].newPassword)
                     /\ token \notin DOMAIN passwordResetTokens
                ELSE /\ calls[c].result = "invalid or expired password reset token"
                     /\ \/ token \notin DOMAIN lookups
                        \/ lookups[token] = 1
                        \/ token \in removed

\* A step changes a user document only as the successful end of a
\* ResetPassword call for a token of that user, and only in its password.
ResetPasswordFrame ==
    /\ DOMAIN users' = DOMAIN users
    /\ \A u \in DOMAIN users :
          users'[u] # users[u] =>
              \E c \in ResetCalls :
                  /\ calls[c].pc = "rp_update"
                  /\ calls'[c].pc = "done"
                  /\ calls'[c].result = ""
                  /\ u = TokenUser(calls[c].token)
                  /\ users'[u] = [users[u] EXCEPT !.Password = HashPassword(calls[c].newPassword)]

----------------------------------------------------------------------------
(* Properties of the AuthorizationContext and of the route-level gate. *)

\* C12: every request the middleware admits is authorized with the role its
\* user holds in the store at that moment: the context's role id, role name
\* and permissions are those of the user's current stored role, also when the
\* session token was issued before UpdateUserRole changed the assignment.
C12_RoleEditsPropagate ==
    \A h \in Callers :
        LET ac == Ctx(h)
            stored == GetRoleByID(Hex(users[ac.UserID].RoleID))
        IN  /\ ac.RoleID = users[ac.UserID].RoleID
            /\ stored.err = ""
            /\ ac.RoleName = stored.val.Name
            /\ ac.Permissions = stored.val.Permissions

\* The bearer tokens among the headers a client can send to the gate, and the
\* role id a token names.
Bearers == {h \in GateHeaders : h.kind = "bearer"}
TokenRole(token) == ObjectIDFromHex(token.claims.role_id).oid

\* C11: whenever the middleware admits a token, the permission set of the
\* context it builds is the one stored now for the role the token resolves to,
\* and the request passes the gate of a route exactly when the route asks for
\* no permission or for one of that stored set -- whatever the set was when
\* the token was issued.
C11_PermissionsReadAtRequest ==
    \A h \in Bearers :
        JWTAuth(h, "").ok =>
            LET stored == roles[TokenRole(h.token)]
            IN  /\ Ctx(h).Permissions = stored.Permissions
                /\ \A p \in Actions :
                       JWTAuth(h, p).ok <=> (p = "" \/ p \in ActionsOf(stored))

\* A session token still admitted whose role document was edited, and a
\* profile update just refused for the permission taken from the role.
C11_Witness ==
    /\ resp.route = "PUT /users/{id}/profile"
    /\ resp.error = "You do not have sufficient permissions to access this resource"
    /\ \E u \in DOMAIN sessions :
           /\ JWTAuth(Bearer(sessions[u]), "").ok
           /\ roles[TokenRole(sessions[u])] # SeededRoles[TokenRole(sessions[u])]
           /\ ~JWTAuth(Bearer(sessions[u]), "user:update_profile").ok

\* The tokens that pass jwt.Parse and carry both identity claims.
Verified(token) ==
    /\ JwtParse(token, jwtSecret).err = ""
    /\ {"user_id", "role_id"} \subseteq DOMAIN token.claims

\* What a client can send to the protected routes of SpecGate.
GateRequests ==
    {[route |-> "POST /auth/verify_email", target |-> t, req |-> NoRequest] : t \in VerifyTokens}
    \cup {[route |-> "PUT /users/{id}/profile", target |-> t, req |-> r] :
              t \in GateTargets, r \in ProfileRequests}
    \cup {[route |-> "POST /auth/change_temp_password", target |-> "", req |-> BadJSON]}

\* C13: for a verified token whose user id is not in the users collection the
\* context build fails with a user-not-found error, and for one whose role id
\* is not in the roles collection with a role-not-found error; either way the
\* middleware answers with its internal-server-error rejection naming the
\* failure, and the request changes nothing (the wrapped handler does not run).
C13_DanglingReferenceRejected ==
    \A h \in Bearers :
        Verified(h.token) =>
            LET u == TokenUser(h.token)
                r == TokenRole(h.token)
                ac == AuthenticatedUserContext(u, r)
            IN  /\ u \notin DOMAIN users => ac.err = "user not found: user not found"
                /\ (u \in DOMAIN users /\ r \notin DOMAIN roles)
                       => ac.err = "user role not found: role not found"
                /\ (u \notin DOMAIN users \/ r \notin DOMAIN roles)
                       => \A q \in GateRequests :
                              Serve(q.route, h, q.target, q.req, "")
                                = Reply(RespondWithError(StatusInternalServerError,
                                      "Failed to retrieve user authentication context: " \o ac.err))

\* A request just refused because the role its token names was deleted.
C13_Witness ==
    /\ resp.error = "Failed to retrieve user authentication context: user role not found: role not found"
    /\ \E u \in DOMAIN sessions :
           /\ Verified(sessions[u])
           /\ u \in DOMAIN users
           /\ TokenRole(sessions[u]) \notin DOMAIN roles

\* The conditions under which the gate of a route lets a request through.
Passes(h, permission) ==
    /\ h.kind = "bearer"
    /\ h.token.alg \in {"HS256", "HS384", "HS512"}
    /\ h.token.key = jwtSecret
    /\ now < h.token.claims.exp
    /\ {"user_id", "role_id"} \subseteq DOMAIN h.token.claims
    /\ TokenUser(h.token) \in DOMAIN users
    /\ TokenRole(h.token) \in DOMAIN roles
    /\ \/ permission = ""
       \/ permission \in ActionsOf(roles[TokenRole(h.token)])

\* C14: the middleware hands a request to the wrapped handler exactly when it
\* carries a bearer token with an HMAC algorithm, the session secret's
\* signature, an expiry in the future and both identity claims, the user and
\* the role exist, and the route's permission is empty or in the role's set;
\* any other request gets an error and leaves users and tasks as they were.
C14_RouteLevelGate ==
    \A h \in GateHeaders, q \in GateRequests :
        LET permission == RequiredPermission(q.route)
            o == Serve(q.route, h, q.target, q.req, "")
        IN  /\ JWTAuth(h, permission).ok <=> Passes(h, permission)
            /\ ~Passes(h, permission)
                   => /\ IsError(o.resp)
                      /\ o.users = users /\ o.tasks = tasks /\ o.taskSeq = taskSeq

\* A session token past its expiry, just refused on the profile route.
C14_Witness ==
    /\ resp.route = "PUT /users/{id}/profile"
    /\ resp.error = "Invalid or expired token: token is expired"
    /\ \E u \in DOMAIN sessions :
           sessions[u].key = jwtSecret /\ ~(now < sessions[u].claims.exp)

\* The secrets, user ids and role ids tokens are generated for below.
Secrets == {jwtSecret, passwordResetSecret, "guessed"}
IssuedRole(u) == IF u = BootstrapAdmin.ID THEN BootstrapAdmin.RoleID ELSE RegisteredUser.RoleID

\* The claims a verification yields are those of user u and role r, and the
\* middleware, when both exist, builds the context of exactly that pair.
RoundTrip(token, secretKey, u, r) ==
    LET p == JwtParse(token, secretKey)
    IN  /\ p.err = ""
        /\ p.val.user_id = Hex(u)
        /\ p.val.role_id = Hex(r)
        /\ (secretKey = jwtSecret /\ u \in DOMAIN users /\ r \in DOMAIN roles)
               => LET gate == JWTAuth(Bearer(token), "")
                  IN  gate.ok /\ gate.ctx.UserID = u /\ gate.ctx.RoleID = r

TokenKinds == {"session", "reset", "verification"}
Issued(kind) ==
    CASE kind = "session" ->
             {GenerateToken(u, users[u].Email, users[u].RoleID, jwtSecret) : u \in DOMAIN users}
             \cup {sessions[u] : u \in DOMAIN sessions}
      [] kind = "reset" -> {ResetToken}
      [] kind = "verification" -> {VerificationToken}
CheckedWith(kind) ==
    CASE kind = "session" -> jwtSecret
      [] kind = "reset" -> passwordResetSecret
      [] kind = "verification" -> jwtSecret
SignaturePasses(token, secretKey) ==
    JwtParse(token, secretKey).err \notin {"unexpected signing method", "signature is invalid"}

\* C20: a token signed with one secret fails the signature check against any
\* other secret, and no session, password-reset or email-verification token
\* passes the signature check applied to tokens of another kind.
C20_SecretsIndependent ==
    /\ \A s1 \in Secrets : \A s2 \in Secrets \ {s1}, u \in UserOids :
           ~SignaturePasses(GenerateToken(u, Email(1), Oid("role", 1), s1), s2)
    /\ \A k1 \in TokenKinds : \A k2 \in TokenKinds \ {k1} :
           \A token \in Issued(k1) : ~SignaturePasses(token, CheckedWith(k2))

----------------------------------------------------------------------------
(* Properties of password reset requests and of needs_password_change. *)

\* C15: ForgotPassword returns nil for an email of a user and for an email of
\* nobody, and the handler answers both with the same success message; for an
\* email of nobody the registry stays as it is and no sweep is started, while
\* for an email of a user a token is stored and one sweep is started.
C15_ForgotPasswordSilent ==
    \A email \in Emails \cup {UnknownEmail} :
        LET r == ForgotPassword(email)
            o == AuthHandler_ForgotPassword([json |-> TRUE, Email |-> email])
        IN  /\ r.err = ""
            /\ o.resp = RespondWithJSON(StatusOK, Message(
                   "If an account with that email exists, a password reset link has been sent."))
            /\ IF GetUserByEmail(email).err # ""
               THEN /\ r.passwordResetTokens = passwordResetTokens
                    /\ r.spawned = {}
                    /\ o.passwordResetTokens = passwordResetTokens
                    /\ o.spawned = {}
               ELSE /\ Cardinality(r.spawned) = 1
                    /\ r.spawned \subseteq DOMAIN r.passwordResetTokens
                    /\ o.spawned = r.spawned

\* A forgot-password request answered with success while no token was ever
\* issued: the email was nobody's.
C15_Witness ==
    /\ resp.route = "POST /auth/forgot_password"
    /\ resp.error = ""
    /\ resp.status = StatusOK
    /\ passwordResetTokens = EmptyCollection
    /\ Spawned = 0
    /\ Cardinality(DOMAIN users) = MaxUsers

\* The users a request to the role or profile route would leave behind, for
\* every caller and input possible now.
AfterUserRoutes ==
    {Serve("PUT /users/{id}/role", h, id, req, "").users :
        h \in Headers, id \in HexOf(UserOids), req \in RoleRequests}
    \cup {Serve("PUT /users/{id}/profile", h, id, req, "").users :
              h \in Headers, id \in HexOf(UserOids), req \in ProfileRequests}

\* A step creates an account flagged needs_password_change only as an admin
\* creation (role Admin, the temporary password), creates an unflagged one
\* otherwise, and never raises the flag of an existing account.
FlagRaisedOnlyAtAdminCreation ==
    \A u \in DOMAIN users' :
        IF u \in DOMAIN users
        THEN users'[u].NeedsPasswordChange => users[u].NeedsPasswordChange
        ELSE IF resp'.route = "POST /users/admin"
        THEN /\ users'[u].NeedsPasswordChange
             /\ users'[u].Password \in {HashPassword(t) : t \in TempPasswords}
             /\ GetRoleByID(Hex(users'[u].RoleID)).val.Name = "Admin"
        ELSE /\ resp'.route = "POST /auth/register"
             /\ ~users'[u].NeedsPasswordChange

\* C16: an account has needs_password_change set only from its creation by an
\* admin (CreateAdminUser, temporary password); public registration creates
\* the account with the flag false, and no request on an existing account --
\* login, password change, verification, reset, role or profile update --
\* takes the flag from false to true.
C16_FlagOnlyFromAdminCreation ==
    /\ [](\A after \in AfterUserRoutes :
             /\ DOMAIN after = DOMAIN users
             /\ \A u \in DOMAIN users :
                    after[u].NeedsPasswordChange => users[u].NeedsPasswordChange)
    /\ [][FlagRaisedOnlyAtAdminCreation]_vars

\* An admin has just created an account, which carries the flag.
C16_Witness ==
    /\ resp.route = "POST /users/admin"
    /\ resp.error = ""
    /\ \E u \in DOMAIN users :
           /\ users[u].NeedsPasswordChange
           /\ users[u].Password = HashPassword("tmp")
    /\ ~users[Oid("user", 1)].NeedsPasswordChange

Flags(coll) == [u \in DOMAIN coll |-> coll[u].NeedsPasswordChange]

\* A step changes the flag of an existing account only as a successful
\* ChangeTemporaryPassword request of that account's own session, with an old
\* password that matches the stored hash; the step clears the flag, sets the
\* new password and touches no other account.
FlagClearedOnlyByPasswordChange ==
    \A u \in DOMAIN users \cap DOMAIN users' :
        users'[u].NeedsPasswordChange # users[u].NeedsPasswordChange
            => /\ users[u].NeedsPasswordChange
               /\ resp'.route = "POST /auth/change_temp_password"
               /\ resp'.error = ""
               /\ \E h \in Callers, req \in WellFormed(ChangeRequests) :
                      /\ Ctx(h).UserID = u
                      /\ CheckPasswordHash(req.OldPassword, users[u].Password)
                      /\ users' = [users EXCEPT
                                      ![u].Password = HashPassword(req.NewPassword),
                                      ![u].NeedsPasswordChange = FALSE]

\* What ChangeTemporaryPassword and ResetPassword would do in this state.
PasswordChangeOutcome ==
    /\ \A h \in Callers, req \in WellFormed(ChangeRequests) :
           LET u == Ctx(h).UserID
               o == Serve("POST /auth/change_temp_password", h, "", req, "")
           IN  IF /\ users[u].NeedsPasswordChange
                  /\ CheckPasswordHash(req.OldPassword, users[u].Password)
                  /\ req.NewPassword \notin ShortPasswords
               THEN /\ ~IsError(o.resp)
                    /\ o.users = [users EXCEPT ![u].Password = HashPassword(req.NewPassword),
                                               ![u].NeedsPasswordChange = FALSE]
               ELSE IsError(o.resp) /\ o.users = users
    /\ \A token \in KnownTokens, p \in NewPasswords :
           LET r == ResetPassword(token, p)
           IN  /\ Flags(r.users) = Flags(users)
               /\ token \in DOMAIN passwordResetTokens
                      => /\ r.err = ""
                         /\ r.users[TokenUser(token)].Password = HashPassword(p)

\* C17: the flag goes from true to false only in a successful
\* ChangeTemporaryPassword request of that user whose old password matches
\* the stored hash; no other request changes the flag, a successful
\* ResetPassword included; and a ChangeTemporaryPassword request that fails
\* (flag already false, old password wrong) changes neither password nor flag.
C17_FlagClearedOnlyByChange ==
    /\ []PasswordChangeOutcome
    /\ [][FlagClearedOnlyByPasswordChange]_vars

\* An account created by an admin whose password was reset (so the temporary
\* one is gone) has just changed it with the reset password as the old one.
C17_Witness ==
    /\ resp.route = "POST /auth/change_temp_password"
    /\ resp.error = ""
    /\ \E u \in DOMAIN users, token \in DOMAIN lookups :
           /\ u # BootstrapAdmin.ID
           /\ ~users[u].NeedsPasswordChange
           /\ users[u].Password = HashPassword("new1")
           /\ TokenUser(token) = u
           /\ lookups[token] = 1

\* C18: a successful LoginUser returns the stored needs_password_change flag
\* of the user and a session token with the user's id and stored role id; and
\* the gate does not look at the flag: a token is admitted to a route by the
\* conditions on token, user, role and permission alone, the context carries
\* the stored flag, and a flagged caller's verify-email request is served.
C18_FlagSurfacedNotEnforced ==
    /\ \A req \in LoginRequests :
           LET r == LoginUser(req)
               user == GetUserByEmail(req.Email).val
           IN  r.err = ""
                   => /\ r.val.NeedsPasswordChange = user.NeedsPasswordChange
                      /\ r.val.Token.key = jwtSecret
                      /\ r.val.Token.claims.user_id = Hex(user.ID)
                      /\ r.val.Token.claims.role_id = Hex(user.RoleID)
                      /\ r.val.Token.claims.exp = now + Day
    /\ \A h \in GateHeaders, p \in Actions :
           /\ JWTAuth(h, p).ok <=> Passes(h, p)
           /\ JWTAuth(h, p).ok
                  => JWTAuth(h, p).ctx.NeedsPasswordChange
                         = users[TokenUser(h.token)].NeedsPasswordChange
    /\ \A h \in Callers :
           Ctx(h).NeedsPasswordChange
               => LET o == Serve("POST /auth/verify_email", h, "any", NoRequest, "")
                  IN  IF Ctx(h).IsEmailVerified
                      THEN IsError(o.resp) /\ o.users = users
                      ELSE /\ ~IsError(o.resp)
                           /\ o.users = [users EXCEPT ![Ctx(h).UserID].IsEmailVerified = TRUE]

\* An account that still has to change its password has verified its email:
\* the last response is that success, and the other account is unverified.
C18_Witness ==
    /\ resp.route = "POST /auth/verify_email"
    /\ resp.error = ""
    /\ \E u \in DOMAIN users \cap DOMAIN sessions :
           /\ users[u].NeedsPasswordChange
           /\ users[u].IsEmailVerified
           /\ Passes(Bearer(sessions[u]), "user:create_admin")
           /\ \A v \in DOMAIN users \ {u} : ~users[v].IsEmailVerified

----------------------------------------------------------------------------
(* Properties of the responses, of token kinds and of email verification. *)

\* The status code the middleware passes to RespondWithError for a request it
\* refuses: 401 for the credential, 500 for the context, 403 for the permission.
PassedCode(h, permission) ==
    IF ~(/\ h.kind = "bearer"
         /\ Verified(h.token)) THEN StatusUnauthorized
    ELSE IF AuthenticatedUserContext(TokenUser(h.token), TokenRole(h.token)).err # ""
    THEN StatusInternalServerError
    ELSE StatusForbidden

\* C26: a request the middleware refuses is answered with the status code
\* passed to RespondWithError -- 401 for a missing or invalid credential, 403
\* for a lacking permission, 500 for a failed context build -- and never with
\* a success status.
C26_RejectionStatus ==
    \A h \in GateHeaders, q \in GateRequests :
        LET permission == RequiredPermission(q.route)
            o == Serve(q.route, h, q.target, q.req, "")
        IN  ~Passes(h, permission)
                => /\ o.resp.status = PassedCode(h, permission)
                   /\ o.resp.status # StatusOK

\* The reset and verification tokens the service issues for any user id.
NonSessionTokens ==
    {GeneratePasswordResetToken(u, passwordResetSecret) : u \in UserOids}
    \cup {GenerateVerificationToken(Hex(u), jwtSecret) : u \in UserOids}

\* C28: a password-reset token or an email-verification token presented as
\* the bearer credential is refused by JWTAuth on every route, at the
\* signature or at the role_id claim -- before the context is built -- and
\* the request changes nothing.
C28_OnlySessionTokensAccepted ==
    \A token \in NonSessionTokens, q \in GateRequests :
        LET gate == JWTAuth(Bearer(token), RequiredPermission(q.route))
        IN  /\ ~gate.ok
            /\ gate.resp.body.message \in
                   {"Invalid or expired token: signature is invalid",
                    "Role ID claim missing or invalid"}
            /\ Serve(q.route, Bearer(token), q.target, q.req, "") = Reply(gate.resp)

\* The verification token of a registered user was just refused as a bearer
\* credential on the verify-email route, its signature being the session
\* secret's.
C28_Witness ==
    /\ resp.route = "POST /auth/verify_email"
    /\ resp.error = "Role ID claim missing or invalid"
    /\ JwtParse(VerificationToken, jwtSecret).err = ""
    /\ TokenUser(VerificationToken) \in DOMAIN users

\* What the `token` query parameter of a verify-email request stands for: the
\* verification token mailed to user 2, or nothing that parses as a token.
MailedToken(tokenString) ==
    IF tokenString = "mailed" THEN Ok(VerificationToken) ELSE Err("token is malformed")

\* C29: a verify-email request sets is_email_verified of a user only when it
\* is authenticated as that user and its token parameter is a verification
\* token issued for that user that verifies (signature, expiry); it changes
\* the flag of no other user and clears none.
C29_VerifiedOnlyWithToken ==
    \A h \in Callers, tokenString \in VerifyTokens :
        LET o == Serve("POST /auth/verify_email", h, tokenString, NoRequest, "")
            mailed == MailedToken(tokenString)
        IN  \A u \in DOMAIN users :
               /\ users[u].IsEmailVerified => o.users[u].IsEmailVerified
               /\ (o.users[u].IsEmailVerified /\ ~users[u].IsEmailVerified)
                      => /\ Ctx(h).UserID = u
                         /\ mailed.err = ""
                         /\ JwtParse(mailed.val, jwtSecret).err = ""
                         /\ mailed.val.claims.iss = "taskflow-api-verify"
                         /\ mailed.val.claims.user_id = Hex(u)

\* C25: a ResetPassword call that finds the token but then fails (hashing or
\* the store update) returns an error, changes no password and leaves the
\* token in the registry, redeemable by a later call.
C25_FailedResetKeepsToken ==
    \A token \in DOMAIN passwordResetTokens, p \in NewPasswords :
        LET r == ResetPassword(token, p)
        IN  r.err # ""
                => /\ r.users = users
                   /\ token \in DOMAIN r.passwordResetTokens
                   /\ r.passwordResetTokens[token] = passwordResetTokens[token]

----------------------------------------------------------------------------
(* main.go: every start of the server runs SeedDefaultRoles on the roles   *)
(* collection it finds.  Between runs the collection is edited in the      *)
(* database: documents are inserted, rewritten and removed.                *)

MaxRoleDocs == 3
ForeignPermissions == {<< >>, <<Perm("task:read_all")>>}

StartupDone == [route |-> "startup", status |-> 0, error |-> ""]

InitSeed ==
    /\ now = 0
    /\ roles = EmptyCollection
    /\ users = EmptyCollection
    /\ tasks = EmptyCollection
    /\ taskSeq = 0
    /\ sessions = EmptyCollection
    /\ resp = NoResponse
    /\ ResetIdle

\* main.go:64  SeedDefaultRoles returned nil
Startup ==
    /\ roles' = SeedDefaultRoles(roles)
    /\ resp' = StartupDone
    /\ UNCHANGED <<now, users, tasks, taskSeq, sessions, resetVars>>

InsertRole ==
    \E name \in RoleNames, permissions \in ForeignPermissions :
        /\ Cardinality(DOMAIN roles) < MaxRoleDocs
        /\ LET id == FreshRoleID(roles)
           IN  roles' = [x \in DOMAIN roles \cup {id} |->
                            IF x = id THEN [ID |-> id, Name |-> name, Permissions |-> permissions]
                            ELSE roles[x]]
        /\ resp' = NoResponse
        /\ UNCHANGED <<now, users, tasks, taskSeq, sessions, resetVars>>

RewriteRole ==
    \E id \in DOMAIN roles, permissions \in ForeignPermissions :
        /\ roles' = [roles EXCEPT ![id].Permissions = permissions]
        /\ resp' = NoResponse
        /\ UNCHANGED <<now, users, tasks, taskSeq, sessions, resetVars>>

DropRole ==
    \E id \in DOMAIN roles :
        /\ roles' = [x \in DOMAIN roles \ {id} |-> roles[x]]
        /\ resp' = NoResponse
        /\ UNCHANGED <<now, users, tasks, taskSeq, sessions, resetVars>>

NextSeed ==
    \/ Startup
    \/ InsertRole
    \/ RewriteRole
    \/ DropRole

SpecSeed == InitSeed /\ [][NextSeed]_vars

----------------------------------------------------------------------------
(* Properties of role assignment, seeding, the registry lock and listing. *)

\* Some client holds a token whose context has the permission.
ActorHolds(permission) ==
    \E h \in Callers : HasPermission(Ctx(h), permission)

\* A step gives an account a role only in three ways: a registration creates
\* it with the role User; an admin creation, by an actor holding
\* user:create_admin, creates it with the role Admin; a role update, by an
\* actor holding user:update_role, changes the role of an existing account.
RoleGivenOnlyByAuthorisedActor ==
    \A u \in DOMAIN users' :
        IF u \notin DOMAIN users
        THEN \/ /\ resp'.route = "POST /auth/register"
                /\ GetRoleByID(Hex(users'[u].RoleID)).val.Name = "User"
             \/ /\ resp'.route = "POST /users/admin"
                /\ GetRoleByID(Hex(users'[u].RoleID)).val.Name = "Admin"
                /\ ActorHolds("user:create_admin")
        ELSE users'[u].RoleID # users[u].RoleID
                 => /\ resp'.route = "PUT /users/{id}/role"
                    /\ ActorHolds("user:update_role")

OwnListers == {h \in Callers : ~HasPermission(Ctx(h), "task:read_all")}

\* C30: for an actor whose context lacks task:read_all, whatever user_id,
\* status, search, page and limit parameters the request carries, the filter
\* GetTasks builds has user_id set to the actor's own id, and every task in a
\* listing the route returns is owned by the actor.
C30_ListingOwnTasksOnly ==
    \A h \in OwnListers, q \in ListQueries :
        LET o == Serve("GET /tasks", h, BadHex, q, "")
        IN  /\ OwnerFilter(Ctx(h), q.user_id) = Ok([set |-> TRUE, val |-> Ctx(h).UserID])
            /\ ~IsError(o.resp) =>
                   \A i \in DOMAIN o.resp.body.Tasks : o.resp.body.Tasks[i].UserID = Ctx(h).UserID

\* A listing has just been returned while an actor without task:read_all can
\* list, a task of another user is stored, and asking for that user's tasks
\* by the user_id parameter returns an empty page.
C30_Witness ==
    /\ resp.route = "GET /tasks"
    /\ resp.error = ""
    /\ \E h \in OwnListers, t \in DOMAIN tasks :
           /\ tasks[t].UserID # Ctx(h).UserID
           /\ LET o == Serve("GET /tasks", h, BadHex,
                             [json |-> TRUE, user_id |-> [set |-> TRUE, val |-> Hex(tasks[t].UserID)],
                              status |-> "", search |-> "", page |-> Unparsed, limit |-> Unparsed], "")
              IN  ~IsError(o.resp) /\ o.resp.body.Tasks = << >> /\ o.resp.body.TotalCount = 0

\* The documents of a collection with a name; FindOne returns the first.
Named(coll, name) == {id \in DOMAIN coll : coll[id].Name = name}
FirstNamed(coll, name) == CHOOSE id \in Named(coll, name) : \A o \in Named(coll, name) : id[2] <= o[2]

\* Each canonical role exists, and the document a lookup by its name finds
\* carries exactly the canonical permissions.
CanonicalRolesIn(coll) ==
    \A i \in DOMAIN DefaultRoles :
        /\ Named(coll, DefaultRoles[i].Name) # {}
        /\ coll[FirstNamed(coll, DefaultRoles[i].Name)].Permissions = DefaultRoles[i].Permissions

\* C21: whatever the roles collection holds, after SeedDefaultRoles a role
\* named Admin, a role named Manager and a role named User each exist and
\* each carries exactly its canonical permission set.
C21_CanonicalRolesAfterSeeding ==
    /\ CanonicalRolesIn(SeedDefaultRoles(roles))
    /\ resp = StartupDone => CanonicalRolesIn(roles)

\* A start-up has just seeded a collection that holds a role outside the
\* canonical three and a second document named Admin.
C21_Witness ==
    /\ resp = StartupDone
    /\ CanonicalRolesIn(roles)
    /\ Named(roles, "Guest") # {}
    /\ Cardinality(Named(roles, "Admin")) = 2

\* C24: SeedDefaultRoles keeps every document with its _id and name, and its
\* permissions unless they become the canonical ones of its name; each
\* document it adds is the only one of a canonical name the collection did not
\* hold; seeding the seeded collection again changes nothing.
C24_SeedingInsertsAndRefreshesOnly ==
    LET seeded == SeedDefaultRoles(roles)
    IN  /\ DOMAIN roles \subseteq DOMAIN seeded
        /\ \A id \in DOMAIN roles :
               /\ seeded[id].ID = roles[id].ID
               /\ seeded[id].Name = roles[id].Name
               /\ \/ seeded[id].Permissions = roles[id].Permissions
                  \/ \E i \in DOMAIN DefaultRoles :
                         /\ roles[id].Name = DefaultRoles[i].Name
                         /\ seeded[id].Permissions = DefaultRoles[i].Permissions
        /\ \A id \in DOMAIN seeded \ DOMAIN roles :
               /\ seeded[id].ID = id
               /\ \E i \in DOMAIN DefaultRoles : seeded[id].Name = DefaultRoles[i].Name
               /\ Named(roles, seeded[id].Name) = {}
               /\ Named(seeded, seeded[id].Name) = {id}
        /\ SeedDefaultRoles(seeded) = seeded

\* A start-up has just added the missing canonical roles next to a role
\* outside the canonical three and an Admin document that was there before.
C24_Witness ==
    /\ resp = StartupDone
    /\ \E g \in Named(roles, "Guest"), a \in Named(roles, "Admin"), m \in Named(roles, "Manager") :
           /\ a[2] < m[2]
           /\ g[2] < m[2]
           /\ roles[g].Permissions \in ForeignPermissions
    /\ Cardinality(DOMAIN roles) = 4

\* The goroutines between a tokenMutex.Lock() and the map access that
\* precedes its tokenMutex.Unlock().
InCriticalSection ==
    {Caller(c) : c \in {d \in DOMAIN calls : calls[d].pc \in {"fp_store", "rp_lookup", "rp_delete"}}}
        \cup {Sweeper(i) : i \in {j \in DOMAIN sweeps : sweeps[j].pc = "delete"}}

\* A step that reads, inserts into or deletes from the map is taken by the
\* goroutine holding tokenMutex, and releases it.
MapAccessedUnderLock ==
    (\/ passwordResetTokens' # passwordResetTokens
     \/ lookups' # lookups
     \/ removed' # removed
     \/ \E c \in DOMAIN calls : /\ calls[c].pc \in {"fp_store", "rp_lookup", "rp_delete"}
                                /\ calls'[c].pc # calls[c].pc
     \/ \E i \in DOMAIN sweeps : (sweeps[i].pc = "delete" /\ sweeps'[i].pc # "delete"))
        => /\ tokenMutex \in InCriticalSection
           /\ tokenMutex' = Unlocked

\* C22: every read, insert and delete on the registry map is made by the
\* goroutine that holds tokenMutex; at most one goroutine is between its Lock
\* and its map access, and it is the holder; a goroutine that is anywhere
\* else (returned, sleeping, updating the user, waiting) does not hold the mutex.
C22_MapAccessUnderMutex ==
    /\ [](/\ Cardinality(InCriticalSection) <= 1
          /\ (tokenMutex = Unlocked) <=> (InCriticalSection = {})
          /\ tokenMutex # Unlocked => InCriticalSection = {tokenMutex})
    /\ [][MapAccessedUnderLock]_vars

\* A ResetPassword call is about to delete under the mutex while the other
\* call and a sweep goroutine wait for it.
C22_Witness ==
    /\ tokenMutex = Caller(1)
    /\ calls[1].pc = "rp_delete"
    /\ calls[2].pc \in {"fp_lock", "rp_lock1", "rp_lock2"}
    /\ \E i \in DOMAIN sweeps : sweeps[i].pc = "lock"

\* The sweep goroutines that have not run their delete yet.
Pending == {i \in DOMAIN sweeps : sweeps[i].pc \in {"sleep", "lock", "delete"}}

\* Every token in the registry has a pending sweep, and a sweep past its
\* sleep runs no earlier than an hour after its issuance.
SweepScheduled ==
    /\ \A token \in DOMAIN passwordResetTokens : \E i \in Pending : sweeps[i].token = token
    /\ \A i \in DOMAIN sweeps : sweeps[i].pc \in {"lock", "delete", "exit"} => now >= sweeps[i].wake

\* A step that completes an issuance starts exactly one sweep, for the token
\* stored and due an hour later, and no other step starts one; a sweep's
\* delete removes its own key and nothing else, whether the key is there or not.
OneSweepPerIssuance ==
    /\ IF \E c \in DOMAIN calls : calls[c].pc = "fp_store" /\ calls'[c].pc = "done"
       THEN \E c \in DOMAIN calls :
               /\ calls[c].pc = "fp_store"
               /\ calls[c].token \in DOMAIN passwordResetTokens'
               /\ Spawned' = Spawned + 1
               /\ sweeps'[Spawned + 1] = [pc |-> "sleep", token |-> calls[c].token, wake |-> now + Hour]
               /\ \A i \in DOMAIN sweeps : i # Spawned + 1 => sweeps'[i] = sweeps[i]
       ELSE Spawned' = Spawned
    /\ \A i \in DOMAIN sweeps :
           (sweeps[i].pc = "delete" /\ sweeps'[i].pc = "exit")
               => passwordResetTokens' = MapDelete(passwordResetTokens, sweeps[i].token)

\* C23: each completed issuance starts exactly one sweep goroutine, which
\* deletes the token's key no earlier than an hour later, redeemed or not,
\* leaving every other entry as it is; every sweep started runs to its end,
\* so every token put in the registry is removed, and once issuance has
\* stopped the registry becomes empty and stays empty.
C23_EveryTokenSwept ==
    /\ []SweepScheduled
    /\ [][OneSweepPerIssuance]_vars
    /\ \A i \in 1..MaxIssues : (sweeps[i].pc = "sleep") ~> (sweeps[i].pc = "exit")
    /\ <>[](passwordResetTokens = EmptyCollection)

\* Both sweeps have run after the clock passed their hour: one removed its
\* token, the other found its key already deleted by a redemption.
C23_Witness ==
    /\ \A i \in 1..MaxIssues : sweeps[i].pc = "exit"
    /\ passwordResetTokens = EmptyCollection
    /\ removed # {}
    /\ \E i \in 1..MaxIssues : sweeps[i].token \notin removed /\ lookups[sweeps[i].token] > 0
    /\ now > MaxClock

====
